---- MODULE Spec2Model ----
(***************************************************************************)
(* A model of the pricing scraper's API route: the batch handler POST, the *)
(* pricing-page locator findPricingPage and the plan extractor             *)
(* extractPricingInfo, in the DomainResult-producing variant               *)
(* (src/app/page.tsx, lines 295-940) and in the flat-results variant       *)
(* (src/app/api/scrape/route.ts).                                          *)
(*                                                                         *)
(* Strings are sequences of characters, a character being a one-character  *)
(* string; a character outside printable ASCII is written "U+XXXX" with    *)
(* its code point.  The remote sites are the fixed table Web below; every  *)
(* request may in addition fail (timeout, network error).                  *)
(***************************************************************************)
EXTENDS Naturals, Sequences, FiniteSets, TLC

\* PRICING_KEYWORDS of app/page.tsx: one sequence of keywords per language, in the
\* object's key order (en, es, fr, de, it, pt, ru, ja, zh, ko, fi); a keyword is a sequence of characters.
PRICING_KEYWORDS ==
  <<
    <<
      <<"p", "r", "i", "c", "i", "n", "g">>, <<"p", "r", "i", "c", "e">>,
      <<"p", "l", "a", "n">>, <<"s", "u", "b", "s", "c", "r", "i", "p", "t", "i", "o", "n">>,
      <<"b", "i", "l", "l", "i", "n", "g">>, <<"c", "o", "s", "t">>,
      <<"m", "o", "n", "t", "h", "l", "y">>, <<"y", "e", "a", "r", "l", "y">>,
      <<"a", "n", "n", "u", "a", "l">>, <<"p", "r", "e", "m", "i", "u", "m">>,
      <<"p", "r", "o">>, <<"b", "a", "s", "i", "c">>,
      <<"e", "n", "t", "e", "r", "p", "r", "i", "s", "e">>,
      <<"s", "t", "a", "r", "t", "e", "r">>, <<"b", "u", "s", "i", "n", "e", "s", "s">>,
      <<"p", "e", "r", "s", "o", "n", "a", "l">>, <<"t", "e", "a", "m">>,
      <<"i", "n", "d", "i", "v", "i", "d", "u", "a", "l">>,
      <<"p", "a", "c", "k", "a", "g", "e">>, <<"t", "i", "e", "r">>,
      <<"l", "e", "v", "e", "l">>
    >>,
    <<
      <<"p", "r", "e", "c", "i", "o">>, <<"p", "l", "a", "n">>,
      <<"s", "u", "s", "c", "r", "i", "p", "c", "i", "U+00F3", "n">>,
      <<"f", "a", "c", "t", "u", "r", "a", "c", "i", "U+00F3", "n">>,
      <<"c", "o", "s", "t", "o">>, <<"m", "e", "n", "s", "u", "a", "l">>,
      <<"a", "n", "u", "a", "l">>, <<"p", "r", "e", "m", "i", "u", "m">>,
      <<"b", "U+00E1", "s", "i", "c", "o">>, <<"e", "m", "p", "r", "e", "s", "a">>,
      <<"p", "e", "r", "s", "o", "n", "a", "l">>, <<"e", "q", "u", "i", "p", "o">>,
      <<"p", "a", "q", "u", "e", "t", "e">>, <<"n", "i", "v", "e", "l">>
    >>,
    <<
      <<"p", "r", "i", "x">>, <<"p", "l", "a", "n">>,
      <<"a", "b", "o", "n", "n", "e", "m", "e", "n", "t">>,
      <<"f", "a", "c", "t", "u", "r", "a", "t", "i", "o", "n">>, <<"c", "o", "U+00FB", "t">>,
      <<"m", "e", "n", "s", "u", "e", "l">>, <<"a", "n", "n", "u", "e", "l">>,
      <<"p", "r", "e", "m", "i", "u", "m">>, <<"b", "a", "s", "i", "q", "u", "e">>,
      <<"e", "n", "t", "r", "e", "p", "r", "i", "s", "e">>,
      <<"p", "e", "r", "s", "o", "n", "n", "e", "l">>, <<"U+00E9", "q", "u", "i", "p", "e">>,
      <<"f", "o", "r", "f", "a", "i", "t">>, <<"n", "i", "v", "e", "a", "u">>
    >>,
    <<
      <<"p", "r", "e", "i", "s">>, <<"p", "l", "a", "n">>,
      <<"a", "b", "o", "n", "n", "e", "m", "e", "n", "t">>,
      <<"a", "b", "r", "e", "c", "h", "n", "u", "n", "g">>, <<"k", "o", "s", "t", "e", "n">>,
      <<"m", "o", "n", "a", "t", "l", "i", "c", "h">>,
      <<"j", "U+00E4", "h", "r", "l", "i", "c", "h">>, <<"p", "r", "e", "m", "i", "u", "m">>,
      <<"g", "r", "u", "n", "d", "l", "e", "g", "e", "n", "d">>,
      <<"u", "n", "t", "e", "r", "n", "e", "h", "m", "e", "n">>,
      <<"p", "e", "r", "s", "U+00F6", "n", "l", "i", "c", "h">>, <<"t", "e", "a", "m">>,
      <<"p", "a", "k", "e", "t">>, <<"s", "t", "u", "f", "e">>
    >>,
    <<
      <<"p", "r", "e", "z", "z", "o">>, <<"p", "i", "a", "n", "o">>,
      <<"a", "b", "b", "o", "n", "a", "m", "e", "n", "t", "o">>,
      <<"f", "a", "t", "t", "u", "r", "a", "z", "i", "o", "n", "e">>,
      <<"c", "o", "s", "t", "o">>, <<"m", "e", "n", "s", "i", "l", "e">>,
      <<"a", "n", "n", "u", "a", "l", "e">>, <<"p", "r", "e", "m", "i", "u", "m">>,
      <<"b", "a", "s", "e">>, <<"a", "z", "i", "e", "n", "d", "a">>,
      <<"p", "e", "r", "s", "o", "n", "a", "l", "e">>, <<"s", "q", "u", "a", "d", "r", "a">>,
      <<"p", "a", "c", "c", "h", "e", "t", "t", "o">>, <<"l", "i", "v", "e", "l", "l", "o">>
    >>,
    <<
      <<"p", "r", "e", "U+00E7", "o">>, <<"p", "l", "a", "n", "o">>,
      <<"a", "s", "s", "i", "n", "a", "t", "u", "r", "a">>,
      <<"f", "a", "t", "u", "r", "a", "m", "e", "n", "t", "o">>, <<"c", "u", "s", "t", "o">>,
      <<"m", "e", "n", "s", "a", "l">>, <<"a", "n", "u", "a", "l">>,
      <<"p", "r", "e", "m", "i", "u", "m">>, <<"b", "U+00E1", "s", "i", "c", "o">>,
      <<"e", "m", "p", "r", "e", "s", "a">>, <<"p", "e", "s", "s", "o", "a", "l">>,
      <<"e", "q", "u", "i", "p", "e">>, <<"p", "a", "c", "o", "t", "e">>,
      <<"n", "U+00ED", "v", "e", "l">>
    >>,
    <<
      <<"U+0446", "U+0435", "U+043D", "U+0430">>, <<"U+043F", "U+043B", "U+0430", "U+043D">>,
      <<"U+043F", "U+043E", "U+0434", "U+043F", "U+0438", "U+0441", "U+043A", "U+0430">>,
      <<"U+0431", "U+0438", "U+043B", "U+043B", "U+0438", "U+043D", "U+0433">>,
      <<"U+0441", "U+0442", "U+043E", "U+0438", "U+043C", "U+043E", "U+0441", "U+0442", "U+044C">>,
      <<"U+043C", "U+0435", "U+0441", "U+044F", "U+0447", "U+043D", "U+044B", "U+0439">>,
      <<"U+0433", "U+043E", "U+0434", "U+043E", "U+0432", "U+043E", "U+0439">>,
      <<"U+043F", "U+0440", "U+0435", "U+043C", "U+0438", "U+0443", "U+043C">>,
      <<"U+0431", "U+0430", "U+0437", "U+043E", "U+0432", "U+044B", "U+0439">>,
      <<"U+0431", "U+0438", "U+0437", "U+043D", "U+0435", "U+0441">>,
      <<"U+043B", "U+0438", "U+0447", "U+043D", "U+044B", "U+0439">>,
      <<"U+043A", "U+043E", "U+043C", "U+0430", "U+043D", "U+0434", "U+0430">>,
      <<"U+043F", "U+0430", "U+043A", "U+0435", "U+0442">>,
      <<"U+0443", "U+0440", "U+043E", "U+0432", "U+0435", "U+043D", "U+044C">>
    >>,
    <<
      <<"U+4FA1", "U+683C">>, <<"U+30D7", "U+30E9", "U+30F3">>,
      <<"U+30B5", "U+30D6", "U+30B9", "U+30AF", "U+30EA", "U+30D7", "U+30B7", "U+30E7", "U+30F3">>,
      <<"U+8ACB", "U+6C42">>, <<"U+30B3", "U+30B9", "U+30C8">>, <<"U+6708", "U+984D">>,
      <<"U+5E74", "U+984D">>, <<"U+30D7", "U+30EC", "U+30DF", "U+30A2", "U+30E0">>,
      <<"U+30D9", "U+30FC", "U+30B7", "U+30C3", "U+30AF">>,
      <<"U+30D3", "U+30B8", "U+30CD", "U+30B9">>, <<"U+500B", "U+4EBA">>,
      <<"U+30C1", "U+30FC", "U+30E0">>, <<"U+30D1", "U+30C3", "U+30B1", "U+30FC", "U+30B8">>,
      <<"U+30EC", "U+30D9", "U+30EB">>
    >>,
    <<
      <<"U+4EF7", "U+683C">>, <<"U+8BA1", "U+5212">>, <<"U+8BA2", "U+9605">>,
      <<"U+8BA1", "U+8D39">>, <<"U+6210", "U+672C">>, <<"U+6708", "U+8D39">>,
      <<"U+5E74", "U+8D39">>, <<"U+9AD8", "U+7EA7">>, <<"U+57FA", "U+7840">>,
      <<"U+5546", "U+4E1A">>, <<"U+4E2A", "U+4EBA">>, <<"U+56E2", "U+961F">>,
      <<"U+5957", "U+9910">>, <<"U+7EA7", "U+522B">>
    >>,
    <<
      <<"U+AC00", "U+ACA9">>, <<"U+D50C", "U+B79C">>, <<"U+AD6C", "U+B3C5">>,
      <<"U+CCAD", "U+AD6C">>, <<"U+BE44", "U+C6A9">>, <<"U+C6D4", "U+AC04">>,
      <<"U+C5F0", "U+AC04">>, <<"U+D504", "U+B9AC", "U+BBF8", "U+C5C4">>,
      <<"U+AE30", "U+BCF8">>, <<"U+BE44", "U+C988", "U+B2C8", "U+C2A4">>,
      <<"U+AC1C", "U+C778">>, <<"U+D300">>, <<"U+D328", "U+D0A4", "U+C9C0">>,
      <<"U+B808", "U+BCA8">>
    >>,
    <<
      <<"h", "i", "n", "t", "a">>, <<"s", "u", "u", "n", "n", "i", "t", "e", "l", "m", "a">>,
      <<"t", "i", "l", "a", "u", "s">>, <<"l", "a", "s", "k", "u", "t", "u", "s">>,
      <<"k", "u", "s", "t", "a", "n", "n", "u", "s">>,
      <<"k", "u", "u", "k", "a", "u", "s", "i">>, <<"v", "u", "o", "s", "i">>,
      <<"v", "u", "o", "s", "i", "t", "t", "a", "i", "n">>,
      <<"p", "r", "e", "m", "i", "u", "m">>, <<"p", "e", "r", "u", "s">>,
      <<"y", "r", "i", "t", "y", "s">>,
      <<"h", "e", "n", "k", "i", "l", "U+00F6", "k", "o", "h", "t", "a", "i", "n", "e", "n">>,
      <<"t", "i", "i", "m", "i">>, <<"p", "a", "k", "e", "t", "t", "i">>,
      <<"t", "a", "s", "o">>
    >>
  >>

\* PRICE_PATTERNS of app/page.tsx, in table order. sym # <<>>: /sym[\d,]+(?:\.\d{2})?/ ;
\* sym = <<>>: /[\d,]+\s*(?:alt|alt|...)/i with the alternatives in order, "WS+" standing
\* for \s+ and an optional last letter (dollars?) written as the two alternatives
\* (dollars, dollar) the greedy ? tries in that order.
PRICE_PATTERNS ==
  <<
    [sym |-> <<"$">>, alts |-> <<>>], [sym |-> <<"U+20AC">>, alts |-> <<>>],
    [sym |-> <<"U+00A3">>, alts |-> <<>>], [sym |-> <<"U+00A5">>, alts |-> <<>>],
    [sym |-> <<"U+20B9">>, alts |-> <<>>], [sym |-> <<"U+20BD">>, alts |-> <<>>],
    [sym |-> <<"U+20A9">>, alts |-> <<>>],
    [sym |-> <<>>, alts |-> <<
        <<"U", "S", "D">>, <<"E", "U", "R">>, <<"G", "B", "P">>, <<"J", "P", "Y">>,
        <<"I", "N", "R">>, <<"R", "U", "B">>, <<"K", "R", "W">>, <<"U+5143">>, <<"U+5186">>,
        <<"U+20BD">>, <<"U+20B9">>, <<"U+20A9">>
      >>],
    [sym |-> <<>>, alts |-> <<
        <<"d", "o", "l", "l", "a", "r", "s">>, <<"d", "o", "l", "l", "a", "r">>,
        <<"e", "u", "r", "o", "s">>, <<"e", "u", "r", "o">>, <<"p", "o", "u", "n", "d", "s">>,
        <<"p", "o", "u", "n", "d">>, <<"y", "e", "n">>, <<"r", "u", "p", "e", "e", "s">>,
        <<"r", "u", "p", "e", "e">>, <<"r", "u", "b", "l", "e", "s">>,
        <<"r", "u", "b", "l", "e">>, <<"w", "o", "n">>
      >>],
    [sym |-> <<>>, alts |-> <<
        <<"p", "e", "r", "WS+", "m", "o", "n", "t", "h">>,
        <<"p", "e", "r", "WS+", "y", "e", "a", "r">>, <<"m", "o", "n", "t", "h", "l", "y">>,
        <<"y", "e", "a", "r", "l", "y">>, <<"a", "n", "n", "u", "a", "l">>
      >>],
    [sym |-> <<>>, alts |-> <<<<"U+20AC">>, <<"E", "U", "R">>, <<"e", "u", "r", "o">>>>],
    [sym |-> <<>>, alts |-> <<<<"U+00A3">>, <<"G", "B", "P">>, <<"p", "o", "u", "n", "d">>>>],
    [sym |-> <<>>, alts |-> <<<<"U+00A5">>, <<"J", "P", "Y">>, <<"y", "e", "n">>>>],
    [sym |-> <<>>, alts |-> <<<<"U+20B9">>, <<"I", "N", "R">>, <<"r", "u", "p", "e", "e">>>>],
    [sym |-> <<>>, alts |-> <<<<"U+20BD">>, <<"R", "U", "B">>, <<"r", "u", "b", "l", "e">>>>],
    [sym |-> <<>>, alts |-> <<<<"U+20A9">>, <<"K", "R", "W">>, <<"w", "o", "n">>>>],
    [sym |-> <<>>, alts |-> <<
        <<"k", "r">>, <<"S", "E", "K">>, <<"N", "O", "K">>, <<"D", "K", "K">>
      >>],
    [sym |-> <<>>, alts |-> <<<<"C", "H", "F">>, <<"f", "r", "a", "n", "c">>>>],
    [sym |-> <<>>, alts |-> <<<<"C", "A", "D">>, <<"c", "a", "n", "a", "d", "i", "a", "n", "WS+", "d", "o", "l", "l", "a", "r">>>>],
    [sym |-> <<>>, alts |-> <<<<"A", "U", "D">>, <<"a", "u", "s", "t", "r", "a", "l", "i", "a", "n", "WS+", "d", "o", "l", "l", "a", "r">>>>],
    [sym |-> <<>>, alts |-> <<<<"N", "Z", "D">>, <<"n", "e", "w", "WS+", "z", "e", "a", "l", "a", "n", "d", "WS+", "d", "o", "l", "l", "a", "r">>>>],
    [sym |-> <<>>, alts |-> <<<<"B", "R", "L">>, <<"r", "e", "a", "l">>>>],
    [sym |-> <<>>, alts |-> <<<<"M", "X", "N">>, <<"p", "e", "s", "o">>>>],
    [sym |-> <<>>, alts |-> <<<<"Z", "A", "R">>, <<"r", "a", "n", "d">>>>],
    [sym |-> <<>>, alts |-> <<<<"T", "R", "Y">>, <<"l", "i", "r", "a">>>>],
    [sym |-> <<>>, alts |-> <<<<"P", "L", "N">>, <<"z", "l", "o", "t", "y">>>>],
    [sym |-> <<>>, alts |-> <<<<"C", "Z", "K">>, <<"k", "o", "r", "u", "n", "a">>>>],
    [sym |-> <<>>, alts |-> <<<<"H", "U", "F">>, <<"f", "o", "r", "i", "n", "t">>>>],
    [sym |-> <<>>, alts |-> <<<<"R", "O", "N">>, <<"l", "e", "u">>>>],
    [sym |-> <<>>, alts |-> <<<<"B", "G", "N">>, <<"l", "e", "v">>>>],
    [sym |-> <<>>, alts |-> <<<<"H", "R", "K">>, <<"k", "u", "n", "a">>>>],
    [sym |-> <<>>, alts |-> <<<<"R", "S", "D">>, <<"d", "i", "n", "a", "r">>>>],
    [sym |-> <<>>, alts |-> <<<<"U", "A", "H">>, <<"h", "r", "y", "v", "n", "i", "a">>>>],
    [sym |-> <<>>, alts |-> <<<<"B", "Y", "N">>, <<"r", "u", "b", "l", "e">>>>],
    [sym |-> <<>>, alts |-> <<<<"K", "Z", "T">>, <<"t", "e", "n", "g", "e">>>>],
    [sym |-> <<>>, alts |-> <<<<"U", "Z", "S">>, <<"s", "o", "m">>>>],
    [sym |-> <<>>, alts |-> <<<<"K", "G", "S">>, <<"s", "o", "m">>>>],
    [sym |-> <<>>, alts |-> <<<<"T", "J", "S">>, <<"s", "o", "m", "o", "n", "i">>>>],
    [sym |-> <<>>, alts |-> <<<<"T", "M", "T">>, <<"m", "a", "n", "a", "t">>>>],
    [sym |-> <<>>, alts |-> <<<<"G", "E", "L">>, <<"l", "a", "r", "i">>>>],
    [sym |-> <<>>, alts |-> <<<<"A", "M", "D">>, <<"d", "r", "a", "m">>>>],
    [sym |-> <<>>, alts |-> <<<<"A", "Z", "N">>, <<"m", "a", "n", "a", "t">>>>],
    [sym |-> <<>>, alts |-> <<<<"M", "D", "L">>, <<"l", "e", "u">>>>],
    [sym |-> <<>>, alts |-> <<<<"A", "L", "L">>, <<"l", "e", "k">>>>],
    [sym |-> <<>>, alts |-> <<<<"M", "K", "D">>, <<"d", "e", "n", "a", "r">>>>],
    [sym |-> <<>>, alts |-> <<<<"B", "A", "M">>, <<"m", "a", "r", "k", "a">>>>],
    [sym |-> <<>>, alts |-> <<<<"M", "N", "T">>, <<"t", "u", "g", "r", "i", "k">>>>],
    [sym |-> <<>>, alts |-> <<<<"L", "A", "K">>, <<"k", "i", "p">>>>],
    [sym |-> <<>>, alts |-> <<<<"K", "H", "R">>, <<"r", "i", "e", "l">>>>],
    [sym |-> <<>>, alts |-> <<<<"M", "M", "K">>, <<"k", "y", "a", "t">>>>],
    [sym |-> <<>>, alts |-> <<<<"T", "H", "B">>, <<"b", "a", "h", "t">>>>],
    [sym |-> <<>>, alts |-> <<<<"V", "N", "D">>, <<"d", "o", "n", "g">>>>],
    [sym |-> <<>>, alts |-> <<<<"I", "D", "R">>, <<"r", "u", "p", "i", "a", "h">>>>],
    [sym |-> <<>>, alts |-> <<<<"M", "Y", "R">>, <<"r", "i", "n", "g", "g", "i", "t">>>>],
    [sym |-> <<>>, alts |-> <<<<"S", "G", "D">>, <<"d", "o", "l", "l", "a", "r">>>>],
    [sym |-> <<>>, alts |-> <<<<"P", "H", "P">>, <<"p", "e", "s", "o">>>>],
    [sym |-> <<>>, alts |-> <<<<"T", "W", "D">>, <<"d", "o", "l", "l", "a", "r">>>>],
    [sym |-> <<>>, alts |-> <<<<"H", "K", "D">>, <<"d", "o", "l", "l", "a", "r">>>>],
    [sym |-> <<>>, alts |-> <<<<"C", "N", "Y">>, <<"y", "u", "a", "n">>>>],
    [sym |-> <<>>, alts |-> <<<<"K", "R", "W">>, <<"w", "o", "n">>>>],
    [sym |-> <<>>, alts |-> <<<<"J", "P", "Y">>, <<"y", "e", "n">>>>],
    [sym |-> <<>>, alts |-> <<<<"I", "N", "R">>, <<"r", "u", "p", "e", "e">>>>],
    [sym |-> <<>>, alts |-> <<<<"P", "K", "R">>, <<"r", "u", "p", "e", "e">>>>],
    [sym |-> <<>>, alts |-> <<<<"B", "D", "T">>, <<"t", "a", "k", "a">>>>],
    [sym |-> <<>>, alts |-> <<<<"L", "K", "R">>, <<"r", "u", "p", "e", "e">>>>],
    [sym |-> <<>>, alts |-> <<<<"N", "P", "R">>, <<"r", "u", "p", "e", "e">>>>],
    [sym |-> <<>>, alts |-> <<<<"B", "T", "N">>, <<"n", "g", "u", "l", "t", "r", "u", "m">>>>],
    [sym |-> <<>>, alts |-> <<<<"M", "V", "R">>, <<"r", "u", "f", "i", "y", "a", "a">>>>],
    [sym |-> <<>>, alts |-> <<<<"A", "F", "N">>, <<"a", "f", "g", "h", "a", "n", "i">>>>],
    [sym |-> <<>>, alts |-> <<<<"I", "R", "R">>, <<"r", "i", "a", "l">>>>],
    [sym |-> <<>>, alts |-> <<<<"I", "Q", "D">>, <<"d", "i", "n", "a", "r">>>>],
    [sym |-> <<>>, alts |-> <<<<"J", "O", "D">>, <<"d", "i", "n", "a", "r">>>>],
    [sym |-> <<>>, alts |-> <<<<"K", "W", "D">>, <<"d", "i", "n", "a", "r">>>>],
    [sym |-> <<>>, alts |-> <<<<"L", "B", "P">>, <<"p", "o", "u", "n", "d">>>>],
    [sym |-> <<>>, alts |-> <<<<"O", "M", "R">>, <<"r", "i", "a", "l">>>>],
    [sym |-> <<>>, alts |-> <<<<"Q", "A", "R">>, <<"r", "i", "y", "a", "l">>>>],
    [sym |-> <<>>, alts |-> <<<<"S", "A", "R">>, <<"r", "i", "y", "a", "l">>>>],
    [sym |-> <<>>, alts |-> <<<<"S", "Y", "P">>, <<"p", "o", "u", "n", "d">>>>],
    [sym |-> <<>>, alts |-> <<<<"A", "E", "D">>, <<"d", "i", "r", "h", "a", "m">>>>],
    [sym |-> <<>>, alts |-> <<<<"Y", "E", "R">>, <<"r", "i", "a", "l">>>>],
    [sym |-> <<>>, alts |-> <<<<"B", "H", "D">>, <<"d", "i", "n", "a", "r">>>>],
    [sym |-> <<>>, alts |-> <<<<"E", "G", "P">>, <<"p", "o", "u", "n", "d">>>>],
    [sym |-> <<>>, alts |-> <<<<"L", "Y", "D">>, <<"d", "i", "n", "a", "r">>>>],
    [sym |-> <<>>, alts |-> <<<<"M", "A", "D">>, <<"d", "i", "r", "h", "a", "m">>>>],
    [sym |-> <<>>, alts |-> <<<<"T", "N", "D">>, <<"d", "i", "n", "a", "r">>>>],
    [sym |-> <<>>, alts |-> <<<<"D", "Z", "D">>, <<"d", "i", "n", "a", "r">>>>],
    [sym |-> <<>>, alts |-> <<<<"S", "D", "G">>, <<"p", "o", "u", "n", "d">>>>],
    [sym |-> <<>>, alts |-> <<<<"E", "T", "B">>, <<"b", "i", "r", "r">>>>],
    [sym |-> <<>>, alts |-> <<<<"K", "E", "S">>, <<"s", "h", "i", "l", "l", "i", "n", "g">>>>],
    [sym |-> <<>>, alts |-> <<<<"N", "G", "N">>, <<"n", "a", "i", "r", "a">>>>],
    [sym |-> <<>>, alts |-> <<<<"G", "H", "S">>, <<"c", "e", "d", "i">>>>],
    [sym |-> <<>>, alts |-> <<<<"U", "G", "X">>, <<"s", "h", "i", "l", "l", "i", "n", "g">>>>],
    [sym |-> <<>>, alts |-> <<<<"T", "Z", "S">>, <<"s", "h", "i", "l", "l", "i", "n", "g">>>>],
    [sym |-> <<>>, alts |-> <<<<"Z", "M", "W">>, <<"k", "w", "a", "c", "h", "a">>>>],
    [sym |-> <<>>, alts |-> <<<<"M", "W", "K">>, <<"k", "w", "a", "c", "h", "a">>>>],
    [sym |-> <<>>, alts |-> <<<<"B", "W", "P">>, <<"p", "u", "l", "a">>>>],
    [sym |-> <<>>, alts |-> <<<<"N", "A", "D">>, <<"d", "o", "l", "l", "a", "r">>>>],
    [sym |-> <<>>, alts |-> <<<<"L", "S", "L">>, <<"l", "o", "t", "i">>>>],
    [sym |-> <<>>, alts |-> <<<<"S", "Z", "L">>, <<"l", "i", "l", "a", "n", "g", "e", "n", "i">>>>],
    [sym |-> <<>>, alts |-> <<<<"M", "U", "R">>, <<"r", "u", "p", "e", "e">>>>],
    [sym |-> <<>>, alts |-> <<<<"S", "C", "R">>, <<"r", "u", "p", "e", "e">>>>],
    [sym |-> <<>>, alts |-> <<<<"D", "J", "F">>, <<"f", "r", "a", "n", "c">>>>],
    [sym |-> <<>>, alts |-> <<<<"S", "O", "S">>, <<"s", "h", "i", "l", "l", "i", "n", "g">>>>],
    [sym |-> <<>>, alts |-> <<<<"E", "R", "N">>, <<"n", "a", "k", "f", "a">>>>],
    [sym |-> <<>>, alts |-> <<<<"S", "S", "P">>, <<"p", "o", "u", "n", "d">>>>],
    [sym |-> <<>>, alts |-> <<<<"C", "D", "F">>, <<"f", "r", "a", "n", "c">>>>],
    [sym |-> <<>>, alts |-> <<<<"R", "W", "F">>, <<"f", "r", "a", "n", "c">>>>],
    [sym |-> <<>>, alts |-> <<<<"B", "I", "F">>, <<"f", "r", "a", "n", "c">>>>],
    [sym |-> <<>>, alts |-> <<<<"X", "A", "F">>, <<"f", "r", "a", "n", "c">>>>],
    [sym |-> <<>>, alts |-> <<<<"X", "O", "F">>, <<"f", "r", "a", "n", "c">>>>],
    [sym |-> <<>>, alts |-> <<<<"X", "P", "F">>, <<"f", "r", "a", "n", "c">>>>],
    [sym |-> <<>>, alts |-> <<<<"K", "M", "F">>, <<"f", "r", "a", "n", "c">>>>],
    [sym |-> <<>>, alts |-> <<<<"G", "M", "D">>, <<"d", "a", "l", "a", "s", "i">>>>],
    [sym |-> <<>>, alts |-> <<<<"G", "N", "F">>, <<"f", "r", "a", "n", "c">>>>],
    [sym |-> <<>>, alts |-> <<<<"L", "R", "D">>, <<"d", "o", "l", "l", "a", "r">>>>],
    [sym |-> <<>>, alts |-> <<<<"S", "L", "E">>, <<"l", "e", "o", "n", "e">>>>],
    [sym |-> <<>>, alts |-> <<<<"G", "I", "P">>, <<"p", "o", "u", "n", "d">>>>],
    [sym |-> <<>>, alts |-> <<<<"F", "K", "P">>, <<"p", "o", "u", "n", "d">>>>],
    [sym |-> <<>>, alts |-> <<<<"S", "H", "P">>, <<"p", "o", "u", "n", "d">>>>],
    [sym |-> <<>>, alts |-> <<<<"J", "E", "P">>, <<"p", "o", "u", "n", "d">>>>],
    [sym |-> <<>>, alts |-> <<<<"G", "G", "P">>, <<"p", "o", "u", "n", "d">>>>],
    [sym |-> <<>>, alts |-> <<<<"I", "M", "P">>, <<"p", "o", "u", "n", "d">>>>],
    [sym |-> <<>>, alts |-> <<<<"G", "B", "P">>, <<"p", "o", "u", "n", "d">>>>],
    [sym |-> <<>>, alts |-> <<<<"E", "U", "R">>, <<"e", "u", "r", "o">>>>],
    [sym |-> <<>>, alts |-> <<<<"U", "S", "D">>, <<"d", "o", "l", "l", "a", "r">>>>]
  >>

\* PRICING_PATHS of app/page.tsx
PRICING_PATHS ==
  <<
    <<"/", "p", "r", "i", "c", "i", "n", "g">>, <<"/", "p", "r", "i", "c", "e">>,
    <<"/", "p", "l", "a", "n", "s">>, <<"/", "p", "l", "a", "n">>,
    <<"/", "s", "u", "b", "s", "c", "r", "i", "p", "t", "i", "o", "n">>,
    <<"/", "b", "i", "l", "l", "i", "n", "g">>, <<"/", "c", "o", "s", "t">>,
    <<"/", "t", "a", "r", "i", "f", "f", "s">>, <<"/", "r", "a", "t", "e", "s">>,
    <<"/", "p", "r", "e", "i", "s", "e">>, <<"/", "p", "r", "i", "x">>,
    <<"/", "p", "r", "e", "c", "i", "o">>, <<"/", "p", "r", "e", "z", "z", "o">>,
    <<"/", "p", "r", "e", "c", "o">>, <<"/", "U+0446", "U+0435", "U+043D", "U+0430">>,
    <<"/", "U+4FA1", "U+683C">>, <<"/", "U+4EF7", "U+683C">>, <<"/", "U+AC00", "U+ACA9">>,
    <<"/", "h", "i", "n", "n", "a", "t">>, <<"/", "h", "i", "n", "t", "a">>,
    <<"/", "s", "u", "u", "n", "n", "i", "t", "e", "l", "m", "a", "t">>,
    <<"/", "t", "i", "l", "a", "u", "k", "s", "e", "t">>
  >>

\* the substrings of the a[href*="..."] selector list of findPricingPage (app/page.tsx)
LINK_SUBSTRINGS ==
  <<
    <<"p", "r", "i", "c", "i", "n", "g">>, <<"p", "r", "i", "c", "e">>, <<"p", "l", "a", "n">>,
    <<"s", "u", "b", "s", "c", "r", "i", "p", "t", "i", "o", "n">>,
    <<"b", "i", "l", "l", "i", "n", "g">>, <<"p", "r", "e", "m", "i", "u", "m">>,
    <<"p", "r", "o">>, <<"b", "a", "s", "i", "c">>,
    <<"e", "n", "t", "e", "r", "p", "r", "i", "s", "e">>, <<"h", "i", "n", "t", "a">>,
    <<"h", "i", "n", "n", "a", "t">>
  >>

\* modelKeywords of extractPricingInfo (app/page.tsx)
modelKeywords ==
  <<
    <<"m", "o", "n", "t", "h", "l", "y">>, <<"y", "e", "a", "r", "l", "y">>,
    <<"a", "n", "n", "u", "a", "l">>, <<"o", "n", "e", "-", "t", "i", "m", "e">>,
    <<"o", "n", "e", " ", "t", "i", "m", "e">>,
    <<"p", "e", "r", " ", "m", "o", "n", "t", "h">>,
    <<"p", "e", "r", " ", "y", "e", "a", "r">>, <<"m", "e", "n", "s", "u", "a", "l">>,
    <<"a", "n", "u", "a", "l">>, <<"m", "e", "n", "s", "u", "e", "l">>,
    <<"a", "n", "n", "u", "e", "l">>, <<"m", "o", "n", "a", "t", "l", "i", "c", "h">>,
    <<"j", "U+00E4", "h", "r", "l", "i", "c", "h">>, <<"m", "e", "n", "s", "i", "l", "e">>,
    <<"a", "n", "n", "u", "a", "l", "e">>, <<"U+6708", "U+984D">>, <<"U+5E74", "U+984D">>,
    <<"U+6708", "U+8D39">>, <<"U+5E74", "U+8D39">>, <<"U+C6D4", "U+AC04">>,
    <<"U+C5F0", "U+AC04">>, <<"k", "u", "u", "k", "a", "u", "s", "i">>,
    <<"v", "u", "o", "s", "i">>, <<"v", "u", "o", "s", "i", "t", "t", "a", "i", "n">>
  >>

\* pricingSelectors of extractPricingInfo (app/page.tsx): tag[attr*="sub"] (tag <<>> = any),
\* .tok (a class token) or a bare tag (attr = "").
pricingSelectors ==
  <<
    [tag |-> <<>>, attr |-> "class", sub |-> <<"p", "r", "i", "c", "i", "n", "g">>, tok |-> <<>>],
    [tag |-> <<>>, attr |-> "class", sub |-> <<"p", "l", "a", "n">>, tok |-> <<>>],
    [tag |-> <<>>, attr |-> "class", sub |-> <<"p", "r", "i", "c", "e">>, tok |-> <<>>],
    [tag |-> <<>>, attr |-> "class", sub |-> <<"s", "u", "b", "s", "c", "r", "i", "p", "t", "i", "o", "n">>, tok |-> <<>>],
    [tag |-> <<>>, attr |-> "class", sub |-> <<"b", "i", "l", "l", "i", "n", "g">>, tok |-> <<>>],
    [tag |-> <<>>, attr |-> "class", sub |-> <<"t", "a", "r", "i", "f", "f">>, tok |-> <<>>],
    [tag |-> <<>>, attr |-> "class", sub |-> <<"r", "a", "t", "e">>, tok |-> <<>>],
    [tag |-> <<>>, attr |-> "class", sub |-> <<"c", "o", "s", "t">>, tok |-> <<>>],
    [tag |-> <<>>, attr |-> "class", sub |-> <<"p", "r", "e", "m", "i", "u", "m">>, tok |-> <<>>],
    [tag |-> <<>>, attr |-> "class", sub |-> <<"p", "r", "o">>, tok |-> <<>>],
    [tag |-> <<>>, attr |-> "class", sub |-> <<"b", "a", "s", "i", "c">>, tok |-> <<>>],
    [tag |-> <<>>, attr |-> "class", sub |-> <<"e", "n", "t", "e", "r", "p", "r", "i", "s", "e">>, tok |-> <<>>],
    [tag |-> <<>>, attr |-> "class", sub |-> <<"s", "t", "a", "r", "t", "e", "r">>, tok |-> <<>>],
    [tag |-> <<>>, attr |-> "class", sub |-> <<"b", "u", "s", "i", "n", "e", "s", "s">>, tok |-> <<>>],
    [tag |-> <<>>, attr |-> "class", sub |-> <<"p", "e", "r", "s", "o", "n", "a", "l">>, tok |-> <<>>],
    [tag |-> <<>>, attr |-> "class", sub |-> <<"t", "e", "a", "m">>, tok |-> <<>>],
    [tag |-> <<>>, attr |-> "class", sub |-> <<"i", "n", "d", "i", "v", "i", "d", "u", "a", "l">>, tok |-> <<>>],
    [tag |-> <<>>, attr |-> "id", sub |-> <<"p", "r", "i", "c", "i", "n", "g">>, tok |-> <<>>],
    [tag |-> <<>>, attr |-> "id", sub |-> <<"p", "l", "a", "n">>, tok |-> <<>>],
    [tag |-> <<>>, attr |-> "id", sub |-> <<"p", "r", "i", "c", "e">>, tok |-> <<>>],
    [tag |-> <<>>, attr |-> "id", sub |-> <<"s", "u", "b", "s", "c", "r", "i", "p", "t", "i", "o", "n">>, tok |-> <<>>],
    [tag |-> <<>>, attr |-> "id", sub |-> <<"b", "i", "l", "l", "i", "n", "g">>, tok |-> <<>>],
    [tag |-> <<>>, attr |-> "id", sub |-> <<"p", "r", "e", "m", "i", "u", "m">>, tok |-> <<>>],
    [tag |-> <<>>, attr |-> "id", sub |-> <<"p", "r", "o">>, tok |-> <<>>],
    [tag |-> <<>>, attr |-> "id", sub |-> <<"b", "a", "s", "i", "c">>, tok |-> <<>>],
    [tag |-> <<>>, attr |-> "id", sub |-> <<"e", "n", "t", "e", "r", "p", "r", "i", "s", "e">>, tok |-> <<>>],
    [tag |-> <<>>, attr |-> "data-testid", sub |-> <<"p", "r", "i", "c", "i", "n", "g">>, tok |-> <<>>],
    [tag |-> <<>>, attr |-> "data-testid", sub |-> <<"p", "l", "a", "n">>, tok |-> <<>>],
    [tag |-> <<>>, attr |-> "data-testid", sub |-> <<"p", "r", "i", "c", "e">>, tok |-> <<>>],
    [tag |-> <<>>, attr |-> "data-cy", sub |-> <<"p", "r", "i", "c", "i", "n", "g">>, tok |-> <<>>],
    [tag |-> <<>>, attr |-> "data-cy", sub |-> <<"p", "l", "a", "n">>, tok |-> <<>>],
    [tag |-> <<>>, attr |-> "data-cy", sub |-> <<"p", "r", "i", "c", "e">>, tok |-> <<>>],
    [tag |-> <<>>, attr |-> "data-testid", sub |-> <<"p", "r", "e", "m", "i", "u", "m">>, tok |-> <<>>],
    [tag |-> <<>>, attr |-> "data-testid", sub |-> <<"p", "r", "o">>, tok |-> <<>>],
    [tag |-> <<>>, attr |-> "data-testid", sub |-> <<"b", "a", "s", "i", "c">>, tok |-> <<>>],
    [tag |-> <<>>, attr |-> "class", sub |-> <<>>, tok |-> <<"p", "r", "i", "c", "i", "n", "g", "-", "t", "a", "b", "l", "e">>],
    [tag |-> <<>>, attr |-> "class", sub |-> <<>>, tok |-> <<"p", "r", "i", "c", "i", "n", "g", "-", "c", "a", "r", "d">>],
    [tag |-> <<>>, attr |-> "class", sub |-> <<>>, tok |-> <<"p", "l", "a", "n", "-", "c", "a", "r", "d">>],
    [tag |-> <<>>, attr |-> "class", sub |-> <<>>, tok |-> <<"p", "r", "i", "c", "e", "-", "c", "a", "r", "d">>],
    [tag |-> <<>>, attr |-> "class", sub |-> <<>>, tok |-> <<"s", "u", "b", "s", "c", "r", "i", "p", "t", "i", "o", "n", "-", "c", "a", "r", "d">>],
    [tag |-> <<>>, attr |-> "class", sub |-> <<>>, tok |-> <<"b", "i", "l", "l", "i", "n", "g", "-", "c", "a", "r", "d">>],
    [tag |-> <<>>, attr |-> "class", sub |-> <<>>, tok |-> <<"t", "a", "r", "i", "f", "f", "-", "c", "a", "r", "d">>],
    [tag |-> <<>>, attr |-> "class", sub |-> <<>>, tok |-> <<"r", "a", "t", "e", "-", "c", "a", "r", "d">>],
    [tag |-> <<>>, attr |-> "class", sub |-> <<>>, tok |-> <<"p", "r", "e", "m", "i", "u", "m", "-", "c", "a", "r", "d">>],
    [tag |-> <<>>, attr |-> "class", sub |-> <<>>, tok |-> <<"p", "r", "o", "-", "c", "a", "r", "d">>],
    [tag |-> <<>>, attr |-> "class", sub |-> <<>>, tok |-> <<"b", "a", "s", "i", "c", "-", "c", "a", "r", "d">>],
    [tag |-> <<>>, attr |-> "class", sub |-> <<>>, tok |-> <<"e", "n", "t", "e", "r", "p", "r", "i", "s", "e", "-", "c", "a", "r", "d">>],
    [tag |-> <<>>, attr |-> "class", sub |-> <<>>, tok |-> <<"s", "t", "a", "r", "t", "e", "r", "-", "c", "a", "r", "d">>],
    [tag |-> <<>>, attr |-> "class", sub |-> <<>>, tok |-> <<"b", "u", "s", "i", "n", "e", "s", "s", "-", "c", "a", "r", "d">>],
    [tag |-> <<>>, attr |-> "class", sub |-> <<>>, tok |-> <<"p", "e", "r", "s", "o", "n", "a", "l", "-", "c", "a", "r", "d">>],
    [tag |-> <<>>, attr |-> "class", sub |-> <<>>, tok |-> <<"t", "e", "a", "m", "-", "c", "a", "r", "d">>],
    [tag |-> <<"s", "e", "c", "t", "i", "o", "n">>, attr |-> "class", sub |-> <<"p", "r", "i", "c", "i", "n", "g">>, tok |-> <<>>],
    [tag |-> <<"s", "e", "c", "t", "i", "o", "n">>, attr |-> "class", sub |-> <<"p", "l", "a", "n">>, tok |-> <<>>],
    [tag |-> <<"s", "e", "c", "t", "i", "o", "n">>, attr |-> "class", sub |-> <<"p", "r", "i", "c", "e">>, tok |-> <<>>],
    [tag |-> <<"s", "e", "c", "t", "i", "o", "n">>, attr |-> "class", sub |-> <<"p", "r", "e", "m", "i", "u", "m">>, tok |-> <<>>],
    [tag |-> <<"s", "e", "c", "t", "i", "o", "n">>, attr |-> "class", sub |-> <<"p", "r", "o">>, tok |-> <<>>],
    [tag |-> <<"s", "e", "c", "t", "i", "o", "n">>, attr |-> "class", sub |-> <<"b", "a", "s", "i", "c">>, tok |-> <<>>],
    [tag |-> <<"d", "i", "v">>, attr |-> "class", sub |-> <<"p", "r", "i", "c", "i", "n", "g">>, tok |-> <<>>],
    [tag |-> <<"d", "i", "v">>, attr |-> "class", sub |-> <<"p", "l", "a", "n">>, tok |-> <<>>],
    [tag |-> <<"d", "i", "v">>, attr |-> "class", sub |-> <<"p", "r", "i", "c", "e">>, tok |-> <<>>],
    [tag |-> <<"d", "i", "v">>, attr |-> "class", sub |-> <<"p", "r", "e", "m", "i", "u", "m">>, tok |-> <<>>],
    [tag |-> <<"d", "i", "v">>, attr |-> "class", sub |-> <<"p", "r", "o">>, tok |-> <<>>],
    [tag |-> <<"d", "i", "v">>, attr |-> "class", sub |-> <<"b", "a", "s", "i", "c">>, tok |-> <<>>],
    [tag |-> <<"t", "a", "b", "l", "e">>, attr |-> "class", sub |-> <<"p", "r", "i", "c", "i", "n", "g">>, tok |-> <<>>],
    [tag |-> <<"t", "a", "b", "l", "e">>, attr |-> "class", sub |-> <<"p", "l", "a", "n">>, tok |-> <<>>],
    [tag |-> <<"t", "a", "b", "l", "e">>, attr |-> "class", sub |-> <<"p", "r", "i", "c", "e">>, tok |-> <<>>],
    [tag |-> <<"t", "r">>, attr |-> "class", sub |-> <<"p", "r", "i", "c", "i", "n", "g">>, tok |-> <<>>],
    [tag |-> <<"t", "r">>, attr |-> "class", sub |-> <<"p", "l", "a", "n">>, tok |-> <<>>],
    [tag |-> <<"t", "r">>, attr |-> "class", sub |-> <<"p", "r", "i", "c", "e">>, tok |-> <<>>],
    [tag |-> <<"t", "d">>, attr |-> "class", sub |-> <<"p", "r", "i", "c", "i", "n", "g">>, tok |-> <<>>],
    [tag |-> <<"t", "d">>, attr |-> "class", sub |-> <<"p", "l", "a", "n">>, tok |-> <<>>],
    [tag |-> <<"t", "d">>, attr |-> "class", sub |-> <<"p", "r", "i", "c", "e">>, tok |-> <<>>],
    [tag |-> <<"u", "l">>, attr |-> "class", sub |-> <<"p", "r", "i", "c", "i", "n", "g">>, tok |-> <<>>],
    [tag |-> <<"u", "l">>, attr |-> "class", sub |-> <<"p", "l", "a", "n">>, tok |-> <<>>],
    [tag |-> <<"u", "l">>, attr |-> "class", sub |-> <<"p", "r", "i", "c", "e">>, tok |-> <<>>],
    [tag |-> <<"l", "i">>, attr |-> "class", sub |-> <<"p", "r", "i", "c", "i", "n", "g">>, tok |-> <<>>],
    [tag |-> <<"l", "i">>, attr |-> "class", sub |-> <<"p", "l", "a", "n">>, tok |-> <<>>],
    [tag |-> <<"l", "i">>, attr |-> "class", sub |-> <<"p", "r", "i", "c", "e">>, tok |-> <<>>],
    [tag |-> <<"a", "r", "t", "i", "c", "l", "e">>, attr |-> "", sub |-> <<>>, tok |-> <<>>],
    [tag |-> <<"m", "a", "i", "n">>, attr |-> "", sub |-> <<>>, tok |-> <<>>],
    [tag |-> <<"a", "s", "i", "d", "e">>, attr |-> "", sub |-> <<>>, tok |-> <<>>],
    [tag |-> <<"h", "e", "a", "d", "e", "r">>, attr |-> "", sub |-> <<>>, tok |-> <<>>],
    [tag |-> <<"f", "o", "o", "t", "e", "r">>, attr |-> "", sub |-> <<>>, tok |-> <<>>]
  >>

\* PRICING_KEYWORDS of app/api/scrape/route.ts: one sequence of keywords per language, in the
\* object's key order (en, es, fr, de, it, pt, ru, ja, zh, ko); a keyword is a sequence of characters.
PRICING_KEYWORDS_flat ==
  <<
    <<
      <<"p", "r", "i", "c", "i", "n", "g">>, <<"p", "r", "i", "c", "e">>,
      <<"p", "l", "a", "n">>, <<"s", "u", "b", "s", "c", "r", "i", "p", "t", "i", "o", "n">>,
      <<"b", "i", "l", "l", "i", "n", "g">>, <<"c", "o", "s", "t">>,
      <<"m", "o", "n", "t", "h", "l", "y">>, <<"y", "e", "a", "r", "l", "y">>,
      <<"a", "n", "n", "u", "a", "l">>, <<"p", "r", "e", "m", "i", "u", "m">>,
      <<"p", "r", "o">>, <<"b", "a", "s", "i", "c">>,
      <<"e", "n", "t", "e", "r", "p", "r", "i", "s", "e">>,
      <<"s", "t", "a", "r", "t", "e", "r">>, <<"b", "u", "s", "i", "n", "e", "s", "s">>,
      <<"p", "e", "r", "s", "o", "n", "a", "l">>, <<"t", "e", "a", "m">>,
      <<"i", "n", "d", "i", "v", "i", "d", "u", "a", "l">>
    >>,
    <<
      <<"p", "r", "e", "c", "i", "o">>, <<"p", "l", "a", "n">>,
      <<"s", "u", "s", "c", "r", "i", "p", "c", "i", "U+00F3", "n">>,
      <<"f", "a", "c", "t", "u", "r", "a", "c", "i", "U+00F3", "n">>,
      <<"c", "o", "s", "t", "o">>, <<"m", "e", "n", "s", "u", "a", "l">>,
      <<"a", "n", "u", "a", "l">>, <<"p", "r", "e", "m", "i", "u", "m">>,
      <<"b", "U+00E1", "s", "i", "c", "o">>, <<"e", "m", "p", "r", "e", "s", "a">>,
      <<"p", "e", "r", "s", "o", "n", "a", "l">>, <<"e", "q", "u", "i", "p", "o">>
    >>,
    <<
      <<"p", "r", "i", "x">>, <<"p", "l", "a", "n">>,
      <<"a", "b", "o", "n", "n", "e", "m", "e", "n", "t">>,
      <<"f", "a", "c", "t", "u", "r", "a", "t", "i", "o", "n">>, <<"c", "o", "U+00FB", "t">>,
      <<"m", "e", "n", "s", "u", "e", "l">>, <<"a", "n", "n", "u", "e", "l">>,
      <<"p", "r", "e", "m", "i", "u", "m">>, <<"b", "a", "s", "i", "q", "u", "e">>,
      <<"e", "n", "t", "r", "e", "p", "r", "i", "s", "e">>,
      <<"p", "e", "r", "s", "o", "n", "n", "e", "l">>, <<"U+00E9", "q", "u", "i", "p", "e">>
    >>,
    <<
      <<"p", "r", "e", "i", "s">>, <<"p", "l", "a", "n">>,
      <<"a", "b", "o", "n", "n", "e", "m", "e", "n", "t">>,
      <<"a", "b", "r", "e", "c", "h", "n", "u", "n", "g">>, <<"k", "o", "s", "t", "e", "n">>,
      <<"m", "o", "n", "a", "t", "l", "i", "c", "h">>,
      <<"j", "U+00E4", "h", "r", "l", "i", "c", "h">>, <<"p", "r", "e", "m", "i", "u", "m">>,
      <<"g", "r", "u", "n", "d", "l", "e", "g", "e", "n", "d">>,
      <<"u", "n", "t", "e", "r", "n", "e", "h", "m", "e", "n">>,
      <<"p", "e", "r", "s", "U+00F6", "n", "l", "i", "c", "h">>, <<"t", "e", "a", "m">>
    >>,
    <<
      <<"p", "r", "e", "z", "z", "o">>, <<"p", "i", "a", "n", "o">>,
      <<"a", "b", "b", "o", "n", "a", "m", "e", "n", "t", "o">>,
      <<"f", "a", "t", "t", "u", "r", "a", "z", "i", "o", "n", "e">>,
      <<"c", "o", "s", "t", "o">>, <<"m", "e", "n", "s", "i", "l", "e">>,
      <<"a", "n", "n", "u", "a", "l", "e">>, <<"p", "r", "e", "m", "i", "u", "m">>,
      <<"b", "a", "s", "e">>, <<"a", "z", "i", "e", "n", "d", "a">>,
      <<"p", "e", "r", "s", "o", "n", "a", "l", "e">>, <<"s", "q", "u", "a", "d", "r", "a">>
    >>,
    <<
      <<"p", "r", "e", "U+00E7", "o">>, <<"p", "l", "a", "n", "o">>,
      <<"a", "s", "s", "i", "n", "a", "t", "u", "r", "a">>,
      <<"f", "a", "t", "u", "r", "a", "m", "e", "n", "t", "o">>, <<"c", "u", "s", "t", "o">>,
      <<"m", "e", "n", "s", "a", "l">>, <<"a", "n", "u", "a", "l">>,
      <<"p", "r", "e", "m", "i", "u", "m">>, <<"b", "U+00E1", "s", "i", "c", "o">>,
      <<"e", "m", "p", "r", "e", "s", "a">>, <<"p", "e", "s", "s", "o", "a", "l">>,
      <<"e", "q", "u", "i", "p", "e">>
    >>,
    <<
      <<"U+0446", "U+0435", "U+043D", "U+0430">>, <<"U+043F", "U+043B", "U+0430", "U+043D">>,
      <<"U+043F", "U+043E", "U+0434", "U+043F", "U+0438", "U+0441", "U+043A", "U+0430">>,
      <<"U+0431", "U+0438", "U+043B", "U+043B", "U+0438", "U+043D", "U+0433">>,
      <<"U+0441", "U+0442", "U+043E", "U+0438", "U+043C", "U+043E", "U+0441", "U+0442", "U+044C">>,
      <<"U+043C", "U+0435", "U+0441", "U+044F", "U+0447", "U+043D", "U+044B", "U+0439">>,
      <<"U+0433", "U+043E", "U+0434", "U+043E", "U+0432", "U+043E", "U+0439">>,
      <<"U+043F", "U+0440", "U+0435", "U+043C", "U+0438", "U+0443", "U+043C">>,
      <<"U+0431", "U+0430", "U+0437", "U+043E", "U+0432", "U+044B", "U+0439">>,
      <<"U+0431", "U+0438", "U+0437", "U+043D", "U+0435", "U+0441">>,
      <<"U+043B", "U+0438", "U+0447", "U+043D", "U+044B", "U+0439">>,
      <<"U+043A", "U+043E", "U+043C", "U+0430", "U+043D", "U+0434", "U+0430">>
    >>,
    <<
      <<"U+4FA1", "U+683C">>, <<"U+30D7", "U+30E9", "U+30F3">>,
      <<"U+30B5", "U+30D6", "U+30B9", "U+30AF", "U+30EA", "U+30D7", "U+30B7", "U+30E7", "U+30F3">>,
      <<"U+8ACB", "U+6C42">>, <<"U+30B3", "U+30B9", "U+30C8">>, <<"U+6708", "U+984D">>,
      <<"U+5E74", "U+984D">>, <<"U+30D7", "U+30EC", "U+30DF", "U+30A2", "U+30E0">>,
      <<"U+30D9", "U+30FC", "U+30B7", "U+30C3", "U+30AF">>,
      <<"U+30D3", "U+30B8", "U+30CD", "U+30B9">>, <<"U+500B", "U+4EBA">>,
      <<"U+30C1", "U+30FC", "U+30E0">>
    >>,
    <<
      <<"U+4EF7", "U+683C">>, <<"U+8BA1", "U+5212">>, <<"U+8BA2", "U+9605">>,
      <<"U+8BA1", "U+8D39">>, <<"U+6210", "U+672C">>, <<"U+6708", "U+8D39">>,
      <<"U+5E74", "U+8D39">>, <<"U+9AD8", "U+7EA7">>, <<"U+57FA", "U+7840">>,
      <<"U+5546", "U+4E1A">>, <<"U+4E2A", "U+4EBA">>, <<"U+56E2", "U+961F">>
    >>,
    <<
      <<"U+AC00", "U+ACA9">>, <<"U+D50C", "U+B79C">>, <<"U+AD6C", "U+B3C5">>,
      <<"U+CCAD", "U+AD6C">>, <<"U+BE44", "U+C6A9">>, <<"U+C6D4", "U+AC04">>,
      <<"U+C5F0", "U+AC04">>, <<"U+D504", "U+B9AC", "U+BBF8", "U+C5C4">>,
      <<"U+AE30", "U+BCF8">>, <<"U+BE44", "U+C988", "U+B2C8", "U+C2A4">>,
      <<"U+AC1C", "U+C778">>, <<"U+D300">>
    >>
  >>

\* PRICE_PATTERNS of app/api/scrape/route.ts, in table order. sym # <<>>: /sym[\d,]+(?:\.\d{2})?/ ;
\* sym = <<>>: /[\d,]+\s*(?:alt|alt|...)/i with the alternatives in order, "WS+" standing
\* for \s+ and an optional last letter (dollars?) written as the two alternatives
\* (dollars, dollar) the greedy ? tries in that order.
PRICE_PATTERNS_flat ==
  <<
    [sym |-> <<"$">>, alts |-> <<>>], [sym |-> <<"U+20AC">>, alts |-> <<>>],
    [sym |-> <<"U+00A3">>, alts |-> <<>>], [sym |-> <<"U+00A5">>, alts |-> <<>>],
    [sym |-> <<"U+20B9">>, alts |-> <<>>], [sym |-> <<"U+20BD">>, alts |-> <<>>],
    [sym |-> <<"U+20A9">>, alts |-> <<>>],
    [sym |-> <<>>, alts |-> <<
        <<"U", "S", "D">>, <<"E", "U", "R">>, <<"G", "B", "P">>, <<"J", "P", "Y">>,
        <<"I", "N", "R">>, <<"R", "U", "B">>, <<"K", "R", "W">>, <<"U+5143">>, <<"U+5186">>,
        <<"U+20BD">>, <<"U+20B9">>, <<"U+20A9">>
      >>],
    [sym |-> <<>>, alts |-> <<
        <<"d", "o", "l", "l", "a", "r", "s">>, <<"d", "o", "l", "l", "a", "r">>,
        <<"e", "u", "r", "o", "s">>, <<"e", "u", "r", "o">>, <<"p", "o", "u", "n", "d", "s">>,
        <<"p", "o", "u", "n", "d">>, <<"y", "e", "n">>, <<"r", "u", "p", "e", "e", "s">>,
        <<"r", "u", "p", "e", "e">>, <<"r", "u", "b", "l", "e", "s">>,
        <<"r", "u", "b", "l", "e">>, <<"w", "o", "n">>
      >>],
    [sym |-> <<>>, alts |-> <<
        <<"p", "e", "r", "WS+", "m", "o", "n", "t", "h">>,
        <<"p", "e", "r", "WS+", "y", "e", "a", "r">>, <<"m", "o", "n", "t", "h", "l", "y">>,
        <<"y", "e", "a", "r", "l", "y">>, <<"a", "n", "n", "u", "a", "l">>
      >>]
  >>

\* PRICING_PATHS of app/api/scrape/route.ts
PRICING_PATHS_flat ==
  <<
    <<"/", "p", "r", "i", "c", "i", "n", "g">>, <<"/", "p", "r", "i", "c", "e">>,
    <<"/", "p", "l", "a", "n", "s">>, <<"/", "p", "l", "a", "n">>,
    <<"/", "s", "u", "b", "s", "c", "r", "i", "p", "t", "i", "o", "n">>,
    <<"/", "b", "i", "l", "l", "i", "n", "g">>, <<"/", "c", "o", "s", "t">>,
    <<"/", "t", "a", "r", "i", "f", "f", "s">>, <<"/", "r", "a", "t", "e", "s">>,
    <<"/", "p", "r", "e", "i", "s", "e">>, <<"/", "p", "r", "i", "x">>,
    <<"/", "p", "r", "e", "c", "i", "o">>, <<"/", "p", "r", "e", "z", "z", "o">>,
    <<"/", "p", "r", "e", "c", "o">>, <<"/", "U+0446", "U+0435", "U+043D", "U+0430">>,
    <<"/", "U+4FA1", "U+683C">>, <<"/", "U+4EF7", "U+683C">>, <<"/", "U+AC00", "U+ACA9">>
  >>

\* the substrings of the a[href*="..."] selector list of findPricingPage (app/api/scrape/route.ts)
LINK_SUBSTRINGS_flat ==
  <<
    <<"p", "r", "i", "c", "i", "n", "g">>, <<"p", "r", "i", "c", "e">>, <<"p", "l", "a", "n">>,
    <<"s", "u", "b", "s", "c", "r", "i", "p", "t", "i", "o", "n">>,
    <<"b", "i", "l", "l", "i", "n", "g">>
  >>

\* pricingSelectors of extractPricingInfo (app/api/scrape/route.ts): tag[attr*="sub"] (tag <<>> = any),
\* .tok (a class token) or a bare tag (attr = "").
pricingSelectors_flat ==
  <<
    [tag |-> <<>>, attr |-> "class", sub |-> <<"p", "r", "i", "c", "i", "n", "g">>, tok |-> <<>>],
    [tag |-> <<>>, attr |-> "class", sub |-> <<"p", "l", "a", "n">>, tok |-> <<>>],
    [tag |-> <<>>, attr |-> "class", sub |-> <<"p", "r", "i", "c", "e">>, tok |-> <<>>],
    [tag |-> <<>>, attr |-> "class", sub |-> <<"s", "u", "b", "s", "c", "r", "i", "p", "t", "i", "o", "n">>, tok |-> <<>>],
    [tag |-> <<>>, attr |-> "class", sub |-> <<"b", "i", "l", "l", "i", "n", "g">>, tok |-> <<>>],
    [tag |-> <<>>, attr |-> "class", sub |-> <<"t", "a", "r", "i", "f", "f">>, tok |-> <<>>],
    [tag |-> <<>>, attr |-> "class", sub |-> <<"r", "a", "t", "e">>, tok |-> <<>>],
    [tag |-> <<>>, attr |-> "class", sub |-> <<"c", "o", "s", "t">>, tok |-> <<>>],
    [tag |-> <<>>, attr |-> "id", sub |-> <<"p", "r", "i", "c", "i", "n", "g">>, tok |-> <<>>],
    [tag |-> <<>>, attr |-> "id", sub |-> <<"p", "l", "a", "n">>, tok |-> <<>>],
    [tag |-> <<>>, attr |-> "id", sub |-> <<"p", "r", "i", "c", "e">>, tok |-> <<>>],
    [tag |-> <<>>, attr |-> "id", sub |-> <<"s", "u", "b", "s", "c", "r", "i", "p", "t", "i", "o", "n">>, tok |-> <<>>],
    [tag |-> <<>>, attr |-> "id", sub |-> <<"b", "i", "l", "l", "i", "n", "g">>, tok |-> <<>>],
    [tag |-> <<>>, attr |-> "data-testid", sub |-> <<"p", "r", "i", "c", "i", "n", "g">>, tok |-> <<>>],
    [tag |-> <<>>, attr |-> "data-testid", sub |-> <<"p", "l", "a", "n">>, tok |-> <<>>],
    [tag |-> <<>>, attr |-> "data-testid", sub |-> <<"p", "r", "i", "c", "e">>, tok |-> <<>>],
    [tag |-> <<>>, attr |-> "data-cy", sub |-> <<"p", "r", "i", "c", "i", "n", "g">>, tok |-> <<>>],
    [tag |-> <<>>, attr |-> "data-cy", sub |-> <<"p", "l", "a", "n">>, tok |-> <<>>],
    [tag |-> <<>>, attr |-> "data-cy", sub |-> <<"p", "r", "i", "c", "e">>, tok |-> <<>>],
    [tag |-> <<>>, attr |-> "class", sub |-> <<>>, tok |-> <<"p", "r", "i", "c", "i", "n", "g", "-", "t", "a", "b", "l", "e">>],
    [tag |-> <<>>, attr |-> "class", sub |-> <<>>, tok |-> <<"p", "r", "i", "c", "i", "n", "g", "-", "c", "a", "r", "d">>],
    [tag |-> <<>>, attr |-> "class", sub |-> <<>>, tok |-> <<"p", "l", "a", "n", "-", "c", "a", "r", "d">>],
    [tag |-> <<>>, attr |-> "class", sub |-> <<>>, tok |-> <<"p", "r", "i", "c", "e", "-", "c", "a", "r", "d">>],
    [tag |-> <<>>, attr |-> "class", sub |-> <<>>, tok |-> <<"s", "u", "b", "s", "c", "r", "i", "p", "t", "i", "o", "n", "-", "c", "a", "r", "d">>],
    [tag |-> <<>>, attr |-> "class", sub |-> <<>>, tok |-> <<"b", "i", "l", "l", "i", "n", "g", "-", "c", "a", "r", "d">>],
    [tag |-> <<>>, attr |-> "class", sub |-> <<>>, tok |-> <<"t", "a", "r", "i", "f", "f", "-", "c", "a", "r", "d">>],
    [tag |-> <<>>, attr |-> "class", sub |-> <<>>, tok |-> <<"r", "a", "t", "e", "-", "c", "a", "r", "d">>],
    [tag |-> <<"s", "e", "c", "t", "i", "o", "n">>, attr |-> "class", sub |-> <<"p", "r", "i", "c", "i", "n", "g">>, tok |-> <<>>],
    [tag |-> <<"s", "e", "c", "t", "i", "o", "n">>, attr |-> "class", sub |-> <<"p", "l", "a", "n">>, tok |-> <<>>],
    [tag |-> <<"s", "e", "c", "t", "i", "o", "n">>, attr |-> "class", sub |-> <<"p", "r", "i", "c", "e">>, tok |-> <<>>],
    [tag |-> <<"d", "i", "v">>, attr |-> "class", sub |-> <<"p", "r", "i", "c", "i", "n", "g">>, tok |-> <<>>],
    [tag |-> <<"d", "i", "v">>, attr |-> "class", sub |-> <<"p", "l", "a", "n">>, tok |-> <<>>],
    [tag |-> <<"d", "i", "v">>, attr |-> "class", sub |-> <<"p", "r", "i", "c", "e">>, tok |-> <<>>]
  >>

\* String.prototype.toUpperCase on one character, for the first characters of the
\* keyword tables (the other first characters have no upper-case form).
UpperMap ==
    ("a" :> "A") @@ ("b" :> "B") @@ ("c" :> "C") @@ ("e" :> "E") @@ ("f" :> "F") @@
    ("g" :> "G") @@ ("h" :> "H") @@ ("i" :> "I") @@ ("j" :> "J") @@ ("k" :> "K") @@
    ("l" :> "L") @@ ("m" :> "M") @@ ("n" :> "N") @@ ("o" :> "O") @@ ("p" :> "P") @@
    ("s" :> "S") @@ ("t" :> "T") @@ ("u" :> "U") @@ ("v" :> "V") @@ ("y" :> "Y") @@
    ("U+00E9" :> "U+00C9") @@ ("U+0431" :> "U+0411") @@ ("U+0433" :> "U+0413") @@
    ("U+043A" :> "U+041A") @@ ("U+043B" :> "U+041B") @@ ("U+043C" :> "U+041C") @@
    ("U+043F" :> "U+041F") @@ ("U+0441" :> "U+0421") @@ ("U+0443" :> "U+0423") @@
    ("U+0446" :> "U+0426")

\* String.prototype.toLowerCase on one ASCII letter.
LowerMap ==
    ("A" :> "a") @@ ("B" :> "b") @@ ("C" :> "c") @@ ("D" :> "d") @@ ("E" :> "e") @@
    ("F" :> "f") @@ ("G" :> "g") @@ ("H" :> "h") @@ ("I" :> "i") @@ ("J" :> "j") @@
    ("K" :> "k") @@ ("L" :> "l") @@ ("M" :> "m") @@ ("N" :> "n") @@ ("O" :> "o") @@
    ("P" :> "p") @@ ("Q" :> "q") @@ ("R" :> "r") @@ ("S" :> "s") @@ ("T" :> "t") @@
    ("U" :> "u") @@ ("V" :> "v") @@ ("W" :> "w") @@ ("X" :> "x") @@ ("Y" :> "y") @@
    ("Z" :> "z")

\* The URL parser percent-encodes the UTF-8 bytes of a non-ASCII path character.
PctMap ==
    ("U+0430" :> <<"%", "D", "0", "%", "B", "0">>) @@
    ("U+0435" :> <<"%", "D", "0", "%", "B", "5">>) @@
    ("U+043D" :> <<"%", "D", "0", "%", "B", "D">>) @@
    ("U+0446" :> <<"%", "D", "1", "%", "8", "6">>) @@
    ("U+4EF7" :> <<"%", "E", "4", "%", "B", "B", "%", "B", "7">>) @@
    ("U+4FA1" :> <<"%", "E", "4", "%", "B", "E", "%", "A", "1">>) @@
    ("U+683C" :> <<"%", "E", "6", "%", "A", "0", "%", "B", "C">>) @@
    ("U+AC00" :> <<"%", "E", "A", "%", "B", "0", "%", "8", "0">>) @@
    ("U+ACA9" :> <<"%", "E", "A", "%", "B", "2", "%", "A", "9">>)
-----------------------------------------------------------------------------
(* Characters and strings                                                  *)

ToLower(c) == IF c \in DOMAIN LowerMap THEN LowerMap[c] ELSE c

ToUpper(c) == IF c \in DOMAIN UpperMap THEN UpperMap[c] ELSE c

\* Array.prototype.map
Map(s, F(_)) == [k \in 1..Len(s) |-> F(s[k])] \o <<>>

\* String.prototype.toLowerCase
toLowerCase(s) == Map(s, ToLower)

Digits == {"0", "1", "2", "3", "4", "5", "6", "7", "8", "9"}

\* \d
IsDigit(c) == c \in Digits

\* [\d,]
IsDigitOrComma(c) == c \in Digits \/ c = ","

\* \s
IsSpace(c) == c \in {" ", "\n", "\t"}

\* [A-Za-z]
Letters == DOMAIN LowerMap \cup {LowerMap[c] : c \in DOMAIN LowerMap}

\* \w of a regular expression without the u flag: [A-Za-z0-9_]
IsWordChar(c) == c \in Letters \/ c \in Digits \/ c = "_"

\* String.prototype.startsWith
startsWith(s, p) == Len(p) <= Len(s) /\ SubSeq(s, 1, Len(p)) = p

\* String.prototype.includes
includes(s, sub) ==
  \E i \in 1..(Len(s) + 1) :
     i + Len(sub) - 1 <= Len(s) /\ SubSeq(s, i, i + Len(sub) - 1) = sub

\* String.prototype.trim
trim(s) ==
  IF \A k \in 1..Len(s) : IsSpace(s[k]) THEN <<>>
  ELSE LET a == CHOOSE i \in 1..Len(s) :
                  ~IsSpace(s[i]) /\ \A k \in 1..(i - 1) : IsSpace(s[k])
           b == CHOOSE j \in 1..Len(s) :
                  ~IsSpace(s[j]) /\ \A k \in (j + 1)..Len(s) : IsSpace(s[k])
       IN  SubSeq(s, a, b)

\* keyword.charAt(0).toUpperCase() + keyword.slice(1)
Capitalize(kw) == IF kw = <<>> THEN <<>> ELSE <<ToUpper(kw[1])>> \o Tail(kw)

RECURSIVE Flatten(_)
\* the concatenation of a sequence of sequences
Flatten(ss) == IF ss = <<>> THEN <<>> ELSE Head(ss) \o Flatten(Tail(ss))

RECURSIVE Join(_, _)
\* Array.prototype.join
Join(ss, sep) ==
  IF ss = <<>> THEN <<>>
  ELSE IF Len(ss) = 1 THEN ss[1]
  ELSE ss[1] \o sep \o Join(Tail(ss), sep)

-----------------------------------------------------------------------------
(* Regular expressions of the price table and of the plan-name scan        *)

\* the last index of the run of [\d,] characters that starts at j
RunEnd(t, j) ==
  CHOOSE e \in j..Len(t) :
     /\ \A k \in j..e : IsDigitOrComma(t[k])
     /\ e = Len(t) \/ ~IsDigitOrComma(t[e + 1])

\* the first index at or after j that holds no white space (Len(t) + 1 if none)
SkipSpace(t, j) ==
  CHOOSE q \in j..(Len(t) + 1) :
     /\ \A k \in j..(q - 1) : IsSpace(t[k])
     /\ q = Len(t) + 1 \/ ~IsSpace(t[q])

\* /sym[\d,]+(?:\.\d{2})?/ at index i: the last index of the match, 0 if none
PrefixEnd(t, i, sym) ==
  IF /\ i + 1 <= Len(t)
     /\ t[i] = sym[1]
     /\ IsDigitOrComma(t[i + 1])
  THEN LET r == RunEnd(t, i + 1)
       IN  IF /\ r + 3 <= Len(t)
              /\ t[r + 1] = "."
              /\ IsDigit(t[r + 2])
              /\ IsDigit(t[r + 3])
           THEN r + 3
           ELSE r
  ELSE 0

RECURSIVE AltEnd(_, _, _, _)
\* one alternative of (?:...) with the i flag, its atoms from k on, at index q:
\* the last index of the match, 0 if none
AltEnd(t, q, alt, k) ==
  IF k > Len(alt) THEN q - 1
  ELSE IF q > Len(t) THEN 0
  ELSE IF alt[k] = "WS+"
       THEN IF IsSpace(t[q]) THEN AltEnd(t, SkipSpace(t, q), alt, k + 1) ELSE 0
  ELSE IF ToLower(t[q]) = ToLower(alt[k]) THEN AltEnd(t, q + 1, alt, k + 1)
  ELSE 0

\* /[\d,]+\s*(?:alt|...)/i at index i: the last index of the match, 0 if none.
\* No alternative starts with a digit, a comma or white space, so the two greedy
\* quantifiers never give characters back; the first alternative that matches wins.
SuffixEnd(t, i, alts) ==
  IF i <= Len(t) /\ IsDigitOrComma(t[i])
  THEN LET q == SkipSpace(t, RunEnd(t, i) + 1)
           hit == {a \in 1..Len(alts) : AltEnd(t, q, alts[a], 1) > 0}
       IN  IF hit = {} THEN 0
           ELSE AltEnd(t, q, alts[CHOOSE a \in hit : \A b \in hit : a <= b], 1)
  ELSE 0

\* the last index of the match of pattern pat that starts at index i, 0 if none
PatternEnd(t, i, pat) ==
  IF pat.sym # <<>> THEN PrefixEnd(t, i, pat.sym) ELSE SuffixEnd(t, i, pat.alts)

\* text.match(pattern): match[0] of the leftmost match, <<>> when there is none
\* (a match is never the empty string)
Match(t, pat) ==
  LET starts == {i \in 1..Len(t) : PatternEnd(t, i, pat) > 0}
  IN  IF starts = {} THEN <<>>
      ELSE LET i == CHOOSE a \in starts : \A b \in starts : a <= b
           IN  SubSeq(t, i, PatternEnd(t, i, pat))

\* pattern.test(text)
Test(t, pat) == \E i \in 1..Len(t) : PatternEnd(t, i, pat) > 0

\* \b between index p - 1 and index p of t
WordBoundary(t, p) ==
  LET before == p - 1 >= 1 /\ IsWordChar(t[p - 1])
      after == p <= Len(t) /\ IsWordChar(t[p])
  IN  before # after

\* new RegExp(`\\b${keyword}\\b`, 'i').test(text)
WordTest(t, kw) ==
  \E i \in 1..Len(t) :
     /\ i + Len(kw) - 1 <= Len(t)
     /\ \A k \in 1..Len(kw) : ToLower(t[i + k - 1]) = ToLower(kw[k])
     /\ WordBoundary(t, i)
     /\ WordBoundary(t, i + Len(kw))

-----------------------------------------------------------------------------
(* URLs: new URL(...) of the WHATWG URL parser, for http(s) URLs without   *)
(* port, query or fragment                                                 *)

HTTPS == <<"h", "t", "t", "p", "s", ":", "/", "/">>

HTTP == <<"h", "t", "t", "p", ":", "/", "/">>

\* the index of the first "/" of s, Len(s) + 1 if it has none
FirstSlash(s) ==
  CHOOSE q \in 1..(Len(s) + 1) :
     /\ \A k \in 1..(q - 1) : s[k] # "/"
     /\ q = Len(s) + 1 \/ s[q] = "/"

\* percent-encoding of a path: the UTF-8 bytes of a non-ASCII character, %20 for a space
PctEncode(s) ==
  Flatten(Map(s, LAMBDA c :
             IF c \in DOMAIN PctMap THEN PctMap[c]
             ELSE IF c = " " THEN <<"%", "2", "0">>
             ELSE <<c>>))

\* new URL(u): ok = FALSE when the constructor throws TypeError("Invalid URL")
ParseURL(u) ==
  LET scheme == IF startsWith(u, HTTPS) THEN HTTPS
                ELSE IF startsWith(u, HTTP) THEN HTTP
                ELSE <<>>
      rest == SubSeq(u, Len(scheme) + 1, Len(u))
      q == FirstSlash(rest)
      host == SubSeq(rest, 1, q - 1)
      path == IF q > Len(rest) THEN <<"/">> ELSE SubSeq(rest, q, Len(rest))
  IN  [ok |-> scheme # <<>> /\ host # <<>> /\ \A k \in 1..Len(host) : ~IsSpace(host[k]),
       scheme |-> scheme,
       hostname |-> toLowerCase(host),
       path |-> PctEncode(path)]

\* new URL(u).hostname (ParseURL(u).ok holds)
Hostname(u) == ParseURL(u).hostname

\* new URL(u).href (ParseURL(u).ok holds)
Href(u) == LET p == ParseURL(u) IN p.scheme \o p.hostname \o p.path

\* the argument of the URL constructor for new URL(ref, base): ref is a
\* scheme-relative (//host/path), path-absolute (/path) or path-relative reference
Resolved(ref, base) ==
  LET b == ParseURL(base)
      lastSlash == CHOOSE j \in 1..Len(b.path) :
                      b.path[j] = "/" /\ \A k \in (j + 1)..Len(b.path) : b.path[k] # "/"
  IN  IF startsWith(ref, <<"/", "/">>)
        THEN SubSeq(b.scheme, 1, Len(b.scheme) - 2) \o ref
      ELSE IF startsWith(ref, <<"/">>)
        THEN b.scheme \o b.hostname \o ref
      ELSE b.scheme \o b.hostname \o SubSeq(b.path, 1, lastSlash) \o ref

\* new URL(ref, base) does not throw
ResolveOk(ref, base) == ParseURL(base).ok /\ ParseURL(Resolved(ref, base)).ok

\* new URL(ref, base).href
ResolveHref(ref, base) == Href(Resolved(ref, base))

-----------------------------------------------------------------------------
(* Parsed documents: the elements of <body> in document order, none nested *)
(* in another, each with its tag, the attributes the selectors read, and   *)
(* its text; consecutive elements are separated by a line break            *)

\* a JSON / JavaScript string value
Str(s) == [type |-> "string", s |-> s, items |-> <<>>]

Attr(el, name) ==
  CASE name = "class" -> el.class
    [] name = "id" -> el.id
    [] name = "data-testid" -> el.testid
    [] name = "data-cy" -> el.cy
    [] name = "href" -> el.href

\* el matches one selector of a selector table
MatchesSelector(el, sel) ==
  IF sel.attr = "" THEN el.tag = sel.tag
  ELSE IF sel.tok # <<>>
    THEN includes(<<" ">> \o el.class \o <<" ">>, <<" ">> \o sel.tok \o <<" ">>)
  ELSE /\ sel.tag = <<>> \/ el.tag = sel.tag
       /\ includes(Attr(el, sel.attr), sel.sub)

\* $('script, style, noscript').remove()
RemoveScripts(els) ==
  SelectSeq(els, LAMBDA el : el.tag \notin {<<"s", "c", "r", "i", "p", "t">>,
                                            <<"s", "t", "y", "l", "e">>,
                                            <<"n", "o", "s", "c", "r", "i", "p", "t">>})

\* $('body').text()
BodyText(els) == Join(Map(els, LAMBDA el : el.text), <<"\n">>)

\* the text of each element of $('*'): html, head, body, then the body's elements
AllTexts(els) ==
  <<BodyText(els), <<>>, BodyText(els)>> \o Map(els, LAMBDA el : el.text)

RECURSIVE Split(_, _)
\* String.prototype.split on a one-character separator
Split(s, sep) ==
  LET q == CHOOSE j \in 1..(Len(s) + 1) :
              /\ \A k \in 1..(j - 1) : s[k] # sep
              /\ j = Len(s) + 1 \/ s[j] = sep
  IN  IF q > Len(s) THEN <<s>>
      ELSE <<SubSeq(s, 1, q - 1)>> \o Split(SubSeq(s, q + 1, Len(s)), sep)

\* the least element of a non-empty set of numbers
Min(S) == CHOOSE a \in S : \A b \in S : a <= b

-----------------------------------------------------------------------------
(* extractPricingInfo, src/app/page.tsx                                    *)

UNKNOWN_PLAN == <<"U", "n", "k", "n", "o", "w", "n", " ", "P", "l", "a", "n">>

UNKNOWN_MODEL == <<"U", "n", "k", "n", "o", "w", "n">>

\* text.length > 10
MIN_TEXT == 10

\* text.length < 3000
MAX_TEXT == 3000

\* line.length < 500
MAX_LINE == 500

\* the keywords of all languages in iteration order: language order, then keyword order
KeywordList == Flatten(PRICING_KEYWORDS)

\* Tier 1: the elements that match some selector of pricingSelectors, in document order
Tier1(els) ==
  SelectSeq(els, LAMBDA el :
     \E k \in 1..Len(pricingSelectors) : MatchesSelector(el, pricingSelectors[k]))

\* hasPricingKeywords of the keyword scan: text is already lower-cased
HasPricingKeywords(text) ==
  \E l \in 1..Len(PRICING_KEYWORDS) :
     \E k \in 1..Len(PRICING_KEYWORDS[l]) : includes(text, PRICING_KEYWORDS[l][k])

\* PRICE_PATTERNS.some(pattern => pattern.test(text))
HasPricePattern(text) ==
  \E k \in 1..Len(PRICE_PATTERNS) : Test(text, PRICE_PATTERNS[k])

\* Tier 2: the texts of the elements of $('*') that hold a keyword or a price
Tier2(els) ==
  SelectSeq(AllTexts(els), LAMBDA text :
     LET lower == toLowerCase(text)
     IN  HasPricingKeywords(lower) \/ HasPricePattern(lower))

\* the texts of pricingElements: Tier 1 if it is not empty, else Tier 2
PricingElementTexts(els) ==
  IF Tier1(els) # <<>> THEN Map(Tier1(els), LAMBDA el : el.text) ELSE Tier2(els)

\* a faulty ExtractPrice: the match that starts first in the text, whatever its
\* pattern's place in the table
ExtractPrice_leftmost(text) ==
  LET starts == {i \in 1..Len(text) :
                   \E k \in 1..Len(PRICE_PATTERNS) : PatternEnd(text, i, PRICE_PATTERNS[k]) > 0}
  IN  IF starts = {} THEN <<>>
      ELSE LET i == Min(starts)
               k == Min({j \in 1..Len(PRICE_PATTERNS) : PatternEnd(text, i, PRICE_PATTERNS[j]) > 0})
           IN  SubSeq(text, i, PatternEnd(text, i, PRICE_PATTERNS[k]))

\* price: match[0] of the first pattern of the table that matches, '' if none does
ExtractPrice(text) ==
  LET hit == {k \in 1..Len(PRICE_PATTERNS) : Test(text, PRICE_PATTERNS[k])}
  IN  IF hit = {} THEN <<>> ELSE Match(text, PRICE_PATTERNS[Min(hit)])

\* the first loop of the plan-name scan: exact word matching
ExactPlanName(text) ==
  LET hit == {k \in 1..Len(KeywordList) : WordTest(text, KeywordList[k])}
  IN  IF hit = {} THEN UNKNOWN_PLAN ELSE Capitalize(KeywordList[Min(hit)])

\* the second loop of the plan-name scan (and the only one of the line scan):
\* text.toLowerCase().includes(keyword.toLowerCase())
PartialPlanName(text) ==
  LET lower == toLowerCase(text)
      hit == {k \in 1..Len(KeywordList) : includes(lower, toLowerCase(KeywordList[k]))}
  IN  IF hit = {} THEN UNKNOWN_PLAN ELSE Capitalize(KeywordList[Min(hit)])

\* a faulty ExtractPlanName: substring matching only, as in the line scan
ExtractPlanName_partialOnly(text) == PartialPlanName(text)

\* planName of an element
ExtractPlanName(text) ==
  IF ExactPlanName(text) # UNKNOWN_PLAN THEN ExactPlanName(text)
  ELSE PartialPlanName(text)

\* pricingModel: the first cadence keyword the lower-cased text includes
ExtractModel(text) ==
  LET lower == toLowerCase(text)
      hit == {k \in 1..Len(modelKeywords) : includes(lower, modelKeywords[k])}
  IN  IF hit = {} THEN UNKNOWN_MODEL ELSE Capitalize(modelKeywords[Min(hit)])

\* the length gate of an element's trimmed text
ElementGate(text) == Len(text) > MIN_TEXT /\ Len(text) < MAX_TEXT

\* a faulty Meaningful: every element that passes the length gate is kept
Meaningful_always(price, planName) == TRUE

\* "Only add if we found meaningful information"
Meaningful(price, planName) == price # <<>> \/ planName # UNKNOWN_PLAN

\* the fields extracted from the trimmed text of each element of pricingElements
\* that passes the length gate, kept when they carry signal
ElementFields(els) ==
  LET texts == SelectSeq(Map(PricingElementTexts(els), trim), ElementGate)
      fields == Map(texts, LAMBDA text :
                  [planName |-> ExtractPlanName(text), price |-> ExtractPrice(text),
                   pricingModel |-> ExtractModel(text)])
  IN  SelectSeq(fields, LAMBDA f : Meaningful(f.price, f.planName))

\* a faulty LineGate: short lines pass
LineGate_loose(line) == Len(line) < MAX_LINE

\* the length gate of a line of the line scan
LineGate(line) == Len(line) > MIN_TEXT /\ Len(line) < MAX_LINE

\* hasPrice && hasPricingKeyword of the line scan
LineQualifies(line) ==
  LET lower == toLowerCase(line)
  IN  /\ HasPricePattern(line)
      /\ \E k \in 1..Len(KeywordList) : includes(lower, toLowerCase(KeywordList[k]))

\* Tier 3: the fields extracted from the lines of the body's text
LineFields(els) ==
  LET raw == Split(BodyText(els), "\n")
      lines == SelectSeq(Map(raw, trim), LAMBDA l : Len(l) > 0)
      kept == SelectSeq(lines, LAMBDA l : LineGate(l) /\ LineQualifies(l))
  IN  Map(kept, LAMBDA line :
         [planName |-> PartialPlanName(line), price |-> ExtractPrice(line),
          pricingModel |-> ExtractModel(line)])

\* the fields of the records extractPricingInfo returns for a document: the element
\* tiers, and the line scan when they produced no record
ExtractFields(doc) ==
  LET els == RemoveScripts(doc)
      found == ElementFields(els)
  IN  IF found # <<>> THEN found ELSE LineFields(els)

-----------------------------------------------------------------------------
(* JSON values of the request body                                         *)

Undefined == [type |-> "undefined", s |-> <<>>, items |-> <<>>]

\* a number, s holding its digits
Num(s) == [type |-> "number", s |-> s, items |-> <<>>]

Arr(items) == [type |-> "array", s |-> <<>>, items |-> items]

\* !v
Falsy(v) ==
  \/ v.type \in {"undefined", "null"}
  \/ v.type = "string" /\ v.s = <<>>
  \/ v.type = "number" /\ v.s = <<"0">>

-----------------------------------------------------------------------------
(* The remote sites the requests go to                                     *)

El(tag, class, href, text) ==
  [tag |-> tag, class |-> class, id |-> <<>>, testid |-> <<>>, cy |-> <<>>,
   href |-> href, text |-> text]

\* https://a.com/ : two anchors to the same pricing page, one relative, one absolute;
\* no element matches a selector
DocRoot ==
  << El(<<"a">>, <<>>, <<"/", "p", "r", "i", "c", "i", "n", "g">>, <<"P", "r", "i", "c", "i", "n", "g">>),
     El(<<"a">>, <<"n", "a", "v", "-", "l", "i", "n", "k">>, <<"h", "t", "t", "p", "s", ":", "/", "/", "a", ".", "c", "o", "m", "/", "p", "r", "i", "c", "i", "n", "g">>, <<"S", "e", "e", " ", "p", "r", "i", "c", "e", "s">>),
     El(<<"a">>, <<>>, <<"/", "a", "b", "o", "u", "t">>, <<"A", "b", "o", "u", "t", " ", "u", "s">>),
     El(<<"p">>, <<>>, <<>>, <<"W", "e", "l", "c", "o", "m", "e", " ", "t", "o", " ", "o", "u", "r", " ", "s", "i", "t", "e">>) >>

\* https://a.com/pricing : a pricing card, and a Tier-1 element that carries no signal
DocPricing ==
  << El(<<"d", "i", "v">>, <<"p", "r", "i", "c", "i", "n", "g", "-", "c", "a", "r", "d">>, <<>>, <<"P", "r", "o", " ", "P", "l", "a", "n", " ", "$", "2", "9", ".", "9", "9", " ", "p", "e", "r", " ", "m", "o", "n", "t", "h">>),
     El(<<"d", "i", "v">>, <<"p", "r", "i", "c", "i", "n", "g", "-", "n", "o", "t", "e">>, <<>>, <<"C", "o", "n", "t", "a", "c", "t", " ", "u", "s", " ", "t", "o", "d", "a", "y", "!", "!">>) >>

\* https://a.com/plan : the only Tier-1 element carries no signal; a line does, and
\* so does a script
DocPlan ==
  << El(<<"m", "a", "i", "n">>, <<>>, <<>>, <<"W", "e", "l", "c", "o", "m", "e", " ", "t", "o", " ", "o", "u", "r", " ", "s", "i", "t", "e">>),
     El(<<"s", "c", "r", "i", "p", "t">>, <<>>, <<>>, <<"v", "a", "r", " ", "p", "r", "i", "c", "e", " ", "=", " ", "$", "5">>),
     El(<<"p">>, <<>>, <<>>, <<"B", "a", "s", "i", "c", " ", "c", "o", "s", "t", "s", " ", "5", " ", "d", "o", "l", "l", "a", "r", "s">>) >>

\* https://b.org/ : no pricing vocabulary at all; of its three pricing links the
\* second does not resolve
DocBare ==
  << El(<<"a">>, <<>>, <<"/", "p", "r", "i", "c", "i", "n", "g">>, <<"P", "r", "i", "c", "i", "n", "g">>),
     El(<<"a">>, <<>>, <<"/", "/", "x", " ", "y", "/", "p", "l", "a", "n", "s">>, <<"M", "o", "r", "e">>),
     El(<<"a">>, <<>>, <<"/", "p", "l", "a", "n", "s">>, <<"P", "l", "a", "n", "s">>),
     El(<<"p">>, <<>>, <<>>, <<"W", "e", "l", "c", "o", "m", "e", " ", "t", "o", " ", "o", "u", "r", " ", "s", "i", "t", "e">>) >>

Docs == <<DocRoot, DocPricing, DocPlan, DocBare>>

\* no response: the host does not resolve, the connection fails or times out
NoResponse == [status |-> 0, doc |-> 0]

\* the response of the remote site to a request for url: its status and the
\* document it serves (an index of Docs, 0 for none)
Web(url) ==
  LET u == ParseURL(url)
  IN  IF ~u.ok THEN NoResponse
      ELSE IF u.hostname = <<"a", ".", "c", "o", "m">> THEN
        CASE u.path = <<"/">> -> [status |-> 200, doc |-> 1]
          [] u.path = <<"/", "p", "r", "i", "c", "i", "n", "g">> -> [status |-> 200, doc |-> 2]
          [] u.path = <<"/", "p", "l", "a", "n">> -> [status |-> 200, doc |-> 3]
          [] u.path = <<"/", "p", "l", "a", "n", "s">> -> [status |-> 204, doc |-> 0]
          [] OTHER -> [status |-> 404, doc |-> 0]
      ELSE IF u.hostname = <<"b", ".", "o", "r", "g">> THEN
        CASE u.path = <<"/">> -> [status |-> 200, doc |-> 4]
          [] OTHER -> [status |-> 404, doc |-> 0]
      ELSE NoResponse

\* cheerio.load(response.data): the document served at url, empty when the response
\* has no body
Served(url) == IF Web(url).doc = 0 THEN <<>> ELSE Docs[Web(url).doc]

\* the entries a submitted domains array is built from
Entries ==
  { Str(<<"a", ".", "c", "o", "m">>), Str(<<"B", ".", "o", "r", "g">>), Str(<<"d", "o", "w", "n", ".", "i", "n", "v", "a", "l", "i", "d">>), Str(<<"h", "t", "t", "p", "b", "i", "n", ".", "o", "r", "g">>),
    Str(<<"h", "t", "t", "p", "s", ":", "/", "/", "x", " ", "y", "/", "z">>), Num(<<"4", "2">>) }

\* the longest domains array submitted
MaxDomains == 2

RECURSIVE SeqsUpTo(_, _)
\* the sequences over S of length at most n
SeqsUpTo(S, n) ==
  IF n = 0 THEN {<<>>}
  ELSE LET shorter == SeqsUpTo(S, n - 1)
       IN  shorter \cup {Append(s, e) : s \in {t \in shorter : Len(t) = n - 1}, e \in S}

\* the request bodies: text that is not JSON, the JSON null, a JSON number, and
\* objects whose domains field is missing, a string or an array
Bodies ==
  {[kind |-> k, domains |-> Undefined] : k \in {"invalid_json", "null", "number"}}
    \cup {[kind |-> "object", domains |-> d] :
            d \in {Undefined, Str(<<"a", ".", "c", "o", "m">>)} \cup {Arr(s) : s \in SeqsUpTo(Entries, MaxDomains)}}

-----------------------------------------------------------------------------
(* findPricingPage, src/app/page.tsx                                       *)

\* the default validateStatus of axios: 2xx
DefaultValid(status) == status >= 200 /\ status < 300

\* the hrefs of $('a[href*="pricing"], ...') that pass if (href), in document order
PricingHrefs(doc) ==
  LET links == SelectSeq(doc, LAMBDA el :
                 /\ el.tag = <<"a">>
                 /\ el.href # <<>>
                 /\ \E k \in 1..Len(LINK_SUBSTRINGS) : includes(el.href, LINK_SUBSTRINGS[k]))
  IN  Map(links, LAMBDA el : el.href)

\* href.startsWith('http') ? href : new URL(href, baseUrl).href
FullUrl(href, base) ==
  IF startsWith(href, <<"h", "t", "t", "p">>) THEN href ELSE ResolveHref(href, base)

\* a faulty CollectLinks: an href whose resolution throws is skipped and the
\* collection goes on
CollectLinks_skipsBad(doc, base) ==
  LET hrefs == SelectSeq(PricingHrefs(doc), LAMBDA h :
                  startsWith(h, <<"h", "t", "t", "p">>) \/ ResolveOk(h, base))
  IN  [urls |-> Map(hrefs, LAMBDA href : FullUrl(href, base)), threw |-> FALSE]

\* pricingLinks.each(...): the URLs pushed before the first href whose resolution
\* throws, and whether one threw
CollectLinks(doc, base) ==
  LET hrefs == PricingHrefs(doc)
      bad == {k \in 1..Len(hrefs) :
                ~startsWith(hrefs[k], <<"h", "t", "t", "p">>) /\ ~ResolveOk(hrefs[k], base)}
      n == IF bad = {} THEN Len(hrefs) ELSE Min(bad) - 1
  IN  [urls |-> Map(SubSeq(hrefs, 1, n), LAMBDA href : FullUrl(href, base)),
       threw |-> bad # {}]

\* a faulty Dedup: the list is returned as collected
Dedup_none(urls) == urls

RECURSIVE Dedup(_)
\* Array.from(new Set(urls)): the first occurrence of each URL, in order
Dedup(urls) ==
  IF urls = <<>> THEN <<>>
  ELSE LET front == Dedup(SubSeq(urls, 1, Len(urls) - 1))
           last == urls[Len(urls)]
       IN  IF \E k \in 1..Len(front) : front[k] = last THEN front ELSE Append(front, last)

\* response.status === 200
ProbeAdds(status) == status = 200

-----------------------------------------------------------------------------
(* extractPricingInfo on a served document                                 *)

\* the extracted fields of each served document
Fields ==
  <<ExtractFields(DocRoot), ExtractFields(DocPricing), ExtractFields(DocPlan),
    ExtractFields(DocBare)>>

\* results.push({ domain: new URL(url).hostname, planName, price, pricingModel, url,
\* scrapedAt }) for each kept element or line
PlanRecords(fields, url) ==
  Map(fields, LAMBDA f :
     [domain |-> Str(Hostname(url)), planName |-> f.planName, price |-> f.price,
      pricingModel |-> f.pricingModel, url |-> Str(url)])

\* extractPricingInfo($, url) for the document Docs[k], k = 0 for an empty body; the
\* capture time scrapedAt is not modelled
extractPricingInfo(k, url) == IF k = 0 THEN <<>> ELSE PlanRecords(Fields[k], url)

-----------------------------------------------------------------------------
(* POST, src/app/page.tsx: the handler that returns one DomainResult per   *)
(* domain and a summary                                                    *)

VARIABLES
  body,           \* the request body
  pc,             \* the handler's position
  i,              \* the index of the domain being processed
  baseUrl,        \* baseUrl of the domain being processed
  pricingUrls,    \* pricingUrls of findPricingPage
  p,              \* the index of the path being probed
  urlsToScrape,   \* urlsToScrape
  u,              \* the index of the candidate URL being scraped
  allPlans,       \* allPlans
  domainResults,  \* domainResults
  response,       \* the response returned, status 0 while there is none
  requests,       \* history: the number of outbound requests issued so far
  reached,        \* history: some request for this domain was answered
  reachlog,       \* history: reached, of each processed domain
  results,        \* results of the flat-results handler
  appended,       \* history: the number of records each processed position appended
  document,       \* the document handed to extractPricingInfo
  variant,        \* which extractPricingInfo ran on document ("" for none yet)
  extracted,      \* the records it returned
  csvContent,     \* csvContent of downloadCSV, empty while nothing was exported
  downloaded,     \* downloadCSV was called
  fetchlog,       \* history: the axios.get calls for this domain, each with its outcome
  heads,          \* history: the URLs axios.head answered for this domain, with the status
  probed          \* history: the paths probed for this domain, as indices of PRICING_PATHS

\* the variables of the flat-results handler alone
fvars == <<results, appended>>

\* the variables of the extractor run on its own
xvars == <<document, variant, extracted, csvContent, downloaded>>

\* the history of the requests of the domain being processed, empty between domains
hvars == <<fetchlog, heads, probed>>

vars == <<body, pc, i, baseUrl, pricingUrls, p, urlsToScrape, u, allPlans,
          domainResults, response, requests, reached, reachlog, fvars, xvars, hvars>>

\* const { domains } = await request.json()
Domains == IF body.kind = "object" THEN body.domains ELSE Undefined

N_A == <<"N", "/", "A">>

NO_PRICING_FOUND == <<"N", "o", " ", "p", "r", "i", "c", "i", "n", "g", " ", "f", "o", "u", "n", "d">>

ERROR_NAME == <<"E", "r", "r", "o", "r">>

\* validateStatus: (status) => status < 400
ScrapeValid(status) == status > 0 /\ status < 400

\* domain.startsWith('http') ? domain : `https://${domain}`
BaseUrlOf(d) == IF startsWith(d.s, <<"h", "t", "t", "p">>) THEN d.s ELSE HTTPS \o d.s

\* the message of the exception that the first two statements of the loop body
\* throw for entry d, "" if they throw none
ThrownBy(d) ==
  IF d.type # "string" THEN "domain.startsWith is not a function"
  ELSE IF ~ParseURL(BaseUrlOf(d)).ok THEN "Invalid URL"
  ELSE ""

\* the DomainResult pushed when plans were accumulated
SuccessResult(base, plans) ==
  [domain |-> Str(Hostname(base)), url |-> Str(base), plans |-> plans,
   status |-> "success"]

\* a faulty NoPricingResult: the sentinel record is not substituted
NoPricingResult_empty(base) ==
  [domain |-> Str(Hostname(base)), url |-> Str(base), plans |-> <<>>,
   status |-> "no_pricing"]

\* the DomainResult pushed when no plan was accumulated
NoPricingResult(base) ==
  [domain |-> Str(Hostname(base)), url |-> Str(base),
   plans |-> << [domain |-> Str(Hostname(base)), planName |-> NO_PRICING_FOUND,
                 price |-> N_A, pricingModel |-> UNKNOWN_MODEL, url |-> Str(base)] >>,
   status |-> "no_pricing"]

\* the DomainResult pushed by the catch of the loop body
ErrorResult(d, message) ==
  [domain |-> d, url |-> d,
   plans |-> << [domain |-> d, planName |-> ERROR_NAME, price |-> N_A,
                 pricingModel |-> UNKNOWN_MODEL, url |-> d] >>,
   status |-> "error", errorMessage |-> message]

\* a faulty Classified: a single accumulated plan does not count
Classified_strict(base, plans) ==
  IF Len(plans) > 1 THEN SuccessResult(base, plans) ELSE NoPricingResult(base)

\* "Create domain result"
Classified(base, plans) ==
  IF Len(plans) > 0 THEN SuccessResult(base, plans) ELSE NoPricingResult(base)

\* domainResults.filter(r => r.status === status).length
CountStatus(rs, status) ==
  Cardinality({k \in 1..Len(rs) : rs[k].status = status})

\* a faulty Summary: noPricing counts every result that is not a success
Summary_miscount(rs) ==
  [totalDomains |-> Len(rs),
   successful |-> CountStatus(rs, "success"),
   noPricing |-> Len(rs) - CountStatus(rs, "success"),
   errors |-> CountStatus(rs, "error")]

\* the summary of the success response
Summary(rs) ==
  [totalDomains |-> Len(rs),
   successful |-> CountStatus(rs, "success"),
   noPricing |-> CountStatus(rs, "no_pricing"),
   errors |-> CountStatus(rs, "error")]

\* a faulty InvalidDomains: the empty array passes
InvalidDomains_noEmpty(d) == Falsy(d) \/ d.type # "array"

\* !domains || !Array.isArray(domains) || domains.length === 0
InvalidDomains(d) == Falsy(d) \/ d.type # "array" \/ Len(d.items) = 0

\* the handler has received a request and nothing has run
Idle ==
  /\ pc = "request"
  /\ i = 0
  /\ baseUrl = <<>>
  /\ pricingUrls = <<>>
  /\ p = 0
  /\ urlsToScrape = <<>>
  /\ u = 0
  /\ allPlans = <<>>
  /\ domainResults = <<>>
  /\ response = [status |-> 0]
  /\ requests = 0
  /\ reached = FALSE
  /\ reachlog = <<>>
  /\ results = <<>>
  /\ appended = <<>>
  /\ variant = ""
  /\ extracted = <<>>
  /\ csvContent = <<>>
  /\ downloaded = FALSE
  /\ fetchlog = <<>>
  /\ heads = <<>>
  /\ probed = <<>>

Init ==
  /\ body \in Bodies
  /\ document = <<>>
  /\ Idle

\* request.json() rejects, or destructuring null throws: the outer catch answers 500
InternalError ==
  /\ pc = "request"
  /\ body.kind \in {"invalid_json", "null"}
  /\ response' = [status |-> 500, error |-> "Internal server error"]
  /\ pc' = "done"
  /\ UNCHANGED <<body, i, baseUrl, pricingUrls, p, urlsToScrape, u, allPlans,
                 domainResults, requests, reached, reachlog,
                 fvars, xvars, hvars>>

\* the validation of domains fails: 400
ValidationError ==
  /\ pc = "request"
  /\ body.kind \notin {"invalid_json", "null"}
  /\ InvalidDomains(Domains)
  /\ response' = [status |-> 400, error |-> "Please provide a valid array of domains"]
  /\ pc' = "done"
  /\ UNCHANGED <<body, i, baseUrl, pricingUrls, p, urlsToScrape, u, allPlans,
                 domainResults, requests, reached, reachlog,
                 fvars, xvars, hvars>>

\* the validation passes: the loop over domains starts
Accept ==
  /\ pc = "request"
  /\ body.kind \notin {"invalid_json", "null"}
  /\ ~InvalidDomains(Domains)
  /\ pc' = "domain"
  /\ i' = 1
  /\ UNCHANGED <<body, baseUrl, pricingUrls, p, urlsToScrape, u, allPlans,
                 domainResults, response, requests, reached, reachlog,
                 fvars, xvars, hvars>>

\* a faulty DomainError: the catch of the loop body pushes nothing
DomainError_dropped ==
  /\ pc = "domain"
  /\ i <= Len(Domains.items)
  /\ ThrownBy(Domains.items[i]) # ""
  /\ reachlog' = Append(reachlog, FALSE)
  /\ i' = i + 1
  /\ UNCHANGED <<body, pc, baseUrl, pricingUrls, p, urlsToScrape, u, allPlans,
                 domainResults, response, requests, reached,
                 fvars, xvars, hvars>>

\* a faulty DomainError: the loop body has no catch, the exception reaches the
\* outer catch
DomainError_rethrown ==
  /\ pc = "domain"
  /\ i <= Len(Domains.items)
  /\ ThrownBy(Domains.items[i]) # ""
  /\ response' = [status |-> 500, error |-> "Internal server error"]
  /\ pc' = "done"
  /\ UNCHANGED <<body, i, baseUrl, pricingUrls, p, urlsToScrape, u, allPlans,
                 domainResults, requests, reached, reachlog,
                 fvars, xvars, hvars>>

\* a faulty DomainError: the host name is derived after findPricingPage was
\* called, so that a request is made before the exception
DomainError_afterFetch ==
  /\ pc = "domain"
  /\ i <= Len(Domains.items)
  /\ ThrownBy(Domains.items[i]) # ""
  /\ domainResults' = Append(domainResults,
                             ErrorResult(Domains.items[i], ThrownBy(Domains.items[i])))
  /\ reachlog' = Append(reachlog, FALSE)
  /\ requests' = requests + 1
  /\ i' = i + 1
  /\ UNCHANGED <<body, pc, baseUrl, pricingUrls, p, urlsToScrape, u, allPlans,
                 response, reached,
                 fvars, xvars, hvars>>

\* the loop body throws before any request: the catch pushes the error result
DomainError ==
  /\ pc = "domain"
  /\ i <= Len(Domains.items)
  /\ ThrownBy(Domains.items[i]) # ""
  /\ domainResults' = Append(domainResults,
                             ErrorResult(Domains.items[i], ThrownBy(Domains.items[i])))
  /\ reachlog' = Append(reachlog, FALSE)
  /\ i' = i + 1
  /\ UNCHANGED <<body, pc, baseUrl, pricingUrls, p, urlsToScrape, u, allPlans,
                 response, requests, reached,
                 fvars, xvars, hvars>>

\* a faulty StartDomain: allPlans is declared outside the loop over domains and
\* keeps the plans of the domains before
StartDomain_keepsPlans ==
  /\ pc = "domain"
  /\ i <= Len(Domains.items)
  /\ ThrownBy(Domains.items[i]) = ""
  /\ baseUrl' = BaseUrlOf(Domains.items[i])
  /\ pricingUrls' = <<>>
  /\ urlsToScrape' = <<>>
  /\ p' = 0
  /\ u' = 0
  /\ reached' = FALSE
  /\ fetchlog' = <<>>
  /\ heads' = <<>>
  /\ probed' = <<>>
  /\ pc' = "root"
  /\ UNCHANGED <<body, i, allPlans, domainResults, response, requests, reachlog,
                 fvars, xvars>>

\* baseUrl and domainName are computed; findPricingPage is called
StartDomain ==
  /\ pc = "domain"
  /\ i <= Len(Domains.items)
  /\ ThrownBy(Domains.items[i]) = ""
  /\ baseUrl' = BaseUrlOf(Domains.items[i])
  /\ pricingUrls' = <<>>
  /\ urlsToScrape' = <<>>
  /\ allPlans' = <<>>
  /\ p' = 0
  /\ u' = 0
  /\ reached' = FALSE
  /\ fetchlog' = <<>>
  /\ heads' = <<>>
  /\ probed' = <<>>
  /\ pc' = "root"
  /\ UNCHANGED <<body, i, domainResults, response, requests, reachlog,
                 fvars, xvars>>

\* a faulty Located: an empty result is not replaced by the base URL
Located_noFallback(found) ==
  /\ urlsToScrape' = Dedup(found)
  /\ pricingUrls' = <<>>
  /\ u' = 1
  /\ pc' = "scrape"

\* findPricingPage returns found: urlsToScrape is set and the scrape loop starts
Located(found) ==
  /\ urlsToScrape' = IF Len(Dedup(found)) > 0 THEN Dedup(found) ELSE <<baseUrl>>
  /\ pricingUrls' = <<>>
  /\ u' = 1
  /\ pc' = "scrape"

\* a faulty RootFetchFails: findPricingPage has no catch, the failure reaches the
\* catch of the loop body, which pushes the error result
RootFetchFails_raises ==
  /\ pc = "root"
  /\ requests' = requests + 1
  /\ UNCHANGED reached
  /\ domainResults' = Append(domainResults, ErrorResult(Domains.items[i], "Network Error"))
  /\ reachlog' = Append(reachlog, reached)
  /\ i' = i + 1
  /\ fetchlog' = <<>>
  /\ pc' = "domain"
  /\ UNCHANGED <<body, baseUrl, pricingUrls, p, urlsToScrape, u, allPlans, response,
                 fvars, xvars, heads, probed>>

\* axios.get(baseUrl) of findPricingPage fails: its catch returns no URL
RootFetchFails ==
  /\ pc = "root"
  /\ requests' = requests + 1
  /\ UNCHANGED reached
  /\ fetchlog' = Append(fetchlog, [url |-> baseUrl, ok |-> FALSE])
  /\ Located(<<>>)
  /\ UNCHANGED <<body, i, baseUrl, p, allPlans, domainResults, response, reachlog,
                 fvars, xvars, heads, probed>>

\* axios.get(baseUrl) of findPricingPage answers: the links are collected
RootFetchOk ==
  /\ pc = "root"
  /\ DefaultValid(Web(baseUrl).status)
  /\ requests' = requests + 1
  /\ reached' = TRUE
  /\ LET links == CollectLinks(Served(baseUrl), baseUrl)
     IN  IF links.threw
         THEN Located(links.urls) /\ p' = p
         ELSE /\ pricingUrls' = links.urls
              /\ p' = 1
              /\ pc' = "probe"
              /\ UNCHANGED <<urlsToScrape, u>>
  /\ fetchlog' = Append(fetchlog, [url |-> baseUrl, ok |-> TRUE])
  /\ UNCHANGED <<body, i, baseUrl, allPlans, domainResults, response, reachlog,
                 fvars, xvars, heads, probed>>

\* after the probe of path p: the next path, or the end of findPricingPage
Probed(found) ==
  IF p < Len(PRICING_PATHS)
  THEN pricingUrls' = found /\ p' = p + 1 /\ UNCHANGED <<pc, urlsToScrape, u>>
  ELSE Located(found) /\ p' = p

\* a faulty ProbeFails: the exception of a probe ends the scan of the paths
ProbeFails_aborts ==
  /\ pc = "probe"
  /\ requests' = requests + 1
  /\ UNCHANGED reached
  /\ Located(pricingUrls) /\ p' = p
  /\ probed' = Append(probed, p)
  /\ UNCHANGED <<body, i, baseUrl, allPlans, domainResults, response, reachlog,
                 fvars, xvars, fetchlog, heads>>

\* axios.head(pricingUrl) throws (no answer, or a status outside 2xx): swallowed
ProbeFails ==
  /\ pc = "probe"
  /\ requests' = requests + 1
  /\ UNCHANGED reached
  /\ Probed(pricingUrls)
  /\ probed' = Append(probed, p)
  /\ UNCHANGED <<body, i, baseUrl, allPlans, domainResults, response, reachlog,
                 fvars, xvars, fetchlog, heads>>

\* axios.head(pricingUrl) answers with a 2xx status
ProbeOk ==
  /\ pc = "probe"
  /\ LET pricingUrl == ResolveHref(PRICING_PATHS[p], baseUrl)
     IN  /\ DefaultValid(Web(pricingUrl).status)
         /\ Probed(IF ProbeAdds(Web(pricingUrl).status)
                   THEN Append(pricingUrls, pricingUrl) ELSE pricingUrls)
         /\ heads' = Append(heads, [url |-> pricingUrl, status |-> Web(pricingUrl).status])
  /\ probed' = Append(probed, p)
  /\ requests' = requests + 1
  /\ reached' = TRUE
  /\ UNCHANGED <<body, i, baseUrl, allPlans, domainResults, response, reachlog,
                 fvars, xvars, fetchlog>>

\* a faulty ScrapeFails: the failure discards the plans accumulated so far
ScrapeFails_discards ==
  /\ pc = "scrape"
  /\ u <= Len(urlsToScrape)
  /\ requests' = requests + 1
  /\ UNCHANGED reached
  /\ fetchlog' = Append(fetchlog, [url |-> urlsToScrape[u], ok |-> FALSE])
  /\ allPlans' = <<>>
  /\ u' = u + 1
  /\ UNCHANGED <<body, pc, i, baseUrl, pricingUrls, p, urlsToScrape,
                 domainResults, response, reachlog,
                 fvars, xvars, heads, probed>>

\* axios.get(url) of the scrape loop throws: logged, the URL is skipped
ScrapeFails ==
  /\ pc = "scrape"
  /\ u <= Len(urlsToScrape)
  /\ requests' = requests + 1
  /\ UNCHANGED reached
  /\ fetchlog' = Append(fetchlog, [url |-> urlsToScrape[u], ok |-> FALSE])
  /\ u' = u + 1
  /\ UNCHANGED <<body, pc, i, baseUrl, pricingUrls, p, urlsToScrape, allPlans,
                 domainResults, response, reachlog,
                 fvars, xvars, heads, probed>>

\* axios.get(url) of the scrape loop answers: the document's records are appended
ScrapeOk ==
  /\ pc = "scrape"
  /\ u <= Len(urlsToScrape)
  /\ ScrapeValid(Web(urlsToScrape[u]).status)
  /\ requests' = requests + 1
  /\ reached' = TRUE
  /\ allPlans' = allPlans \o extractPricingInfo(Web(urlsToScrape[u]).doc, urlsToScrape[u])
  /\ fetchlog' = Append(fetchlog, [url |-> urlsToScrape[u], ok |-> TRUE])
  /\ u' = u + 1
  /\ UNCHANGED <<body, pc, i, baseUrl, pricingUrls, p, urlsToScrape,
                 domainResults, response, reachlog,
                 fvars, xvars, heads, probed>>

\* the scrape loop is over: the domain's result is pushed
Classify ==
  /\ pc = "scrape"
  /\ u > Len(urlsToScrape)
  /\ domainResults' = Append(domainResults, Classified(baseUrl, allPlans))
  /\ reachlog' = Append(reachlog, reached)
  /\ i' = i + 1
  /\ fetchlog' = <<>>
  /\ heads' = <<>>
  /\ probed' = <<>>
  /\ pc' = "domain"
  /\ UNCHANGED <<body, baseUrl, pricingUrls, p, urlsToScrape, u, allPlans,
                 response, requests, reached,
                 fvars, xvars>>

\* a faulty Respond: the response is produced while entries remain to be
\* processed
Respond_early ==
  /\ pc = "domain"
  /\ i >= Len(Domains.items)
  /\ response' = [status |-> 200, results |-> domainResults,
                  summary |-> Summary(domainResults)]
  /\ pc' = "done"
  /\ UNCHANGED <<body, i, baseUrl, pricingUrls, p, urlsToScrape, u, allPlans,
                 domainResults, requests, reached, reachlog,
                 fvars, xvars, hvars>>

\* the loop over domains is over: the success response
Respond ==
  /\ pc = "domain"
  /\ i > Len(Domains.items)
  /\ response' = [status |-> 200, results |-> domainResults,
                  summary |-> Summary(domainResults)]
  /\ pc' = "done"
  /\ UNCHANGED <<body, i, baseUrl, pricingUrls, p, urlsToScrape, u, allPlans,
                 domainResults, requests, reached, reachlog,
                 fvars, xvars, hvars>>

Next ==
  \/ InternalError
  \/ ValidationError
  \/ Accept
  \/ DomainError
  \/ StartDomain
  \/ RootFetchFails
  \/ RootFetchOk
  \/ ProbeFails
  \/ ProbeOk
  \/ ScrapeFails
  \/ ScrapeOk
  \/ Classify
  \/ Respond

Spec == Init /\ [][Next]_vars

-----------------------------------------------------------------------------
(* extractPricingInfo, src/app/api/scrape/route.ts: the variant that       *)
(* collects features and has no line scan                                  *)

\* text.length < 2000
MAX_TEXT_flat == 2000

\* line.length < 200
MAX_FEATURE == 200

\* .slice(0, 8)
MAX_FEATURES == 8

KeywordList_flat == Flatten(PRICING_KEYWORDS_flat)

\* the elements that match some selector of pricingSelectors, in document order
Tier1_flat(els) ==
  SelectSeq(els, LAMBDA el :
     \E k \in 1..Len(pricingSelectors_flat) : MatchesSelector(el, pricingSelectors_flat[k]))

HasPricingKeywords_flat(text) ==
  \E l \in 1..Len(PRICING_KEYWORDS_flat) :
     \E k \in 1..Len(PRICING_KEYWORDS_flat[l]) : includes(text, PRICING_KEYWORDS_flat[l][k])

HasPricePattern_flat(text) ==
  \E k \in 1..Len(PRICE_PATTERNS_flat) : Test(text, PRICE_PATTERNS_flat[k])

\* the texts of the elements of $('*') that hold a keyword or a price
Tier2_flat(els) ==
  SelectSeq(AllTexts(els), LAMBDA text :
     LET lower == toLowerCase(text)
     IN  HasPricingKeywords_flat(lower) \/ HasPricePattern_flat(lower))

PricingElementTexts_flat(els) ==
  IF Tier1_flat(els) # <<>> THEN Map(Tier1_flat(els), LAMBDA el : el.text)
  ELSE Tier2_flat(els)

ExtractPrice_flat(text) ==
  LET hit == {k \in 1..Len(PRICE_PATTERNS_flat) : Test(text, PRICE_PATTERNS_flat[k])}
  IN  IF hit = {} THEN <<>> ELSE Match(text, PRICE_PATTERNS_flat[Min(hit)])

\* the plan-name scan: exact word matching only
ExtractPlanName_flat(text) ==
  LET hit == {k \in 1..Len(KeywordList_flat) : WordTest(text, KeywordList_flat[k])}
  IN  IF hit = {} THEN UNKNOWN_PLAN ELSE Capitalize(KeywordList_flat[Min(hit)])

\* the separators of text.split(/\n|.../): the line break, bullets, check marks, arrows
FeatureSeparators ==
  {"\n", "U+2022", "U+2713", "U+2714", "U+2192", "U+25B6", "U+25AA", "U+25AB"}

RECURSIVE SplitAny(_, _)
\* String.prototype.split on a one-character class
SplitAny(s, seps) ==
  LET q == CHOOSE j \in 1..(Len(s) + 1) :
              /\ \A k \in 1..(j - 1) : s[k] \notin seps
              /\ j = Len(s) + 1 \/ s[j] \in seps
  IN  IF q > Len(s) THEN <<s>>
      ELSE <<SubSeq(s, 1, q - 1)>> \o SplitAny(SubSeq(s, q + 1, Len(s)), seps)

\* features: the trimmed pieces of the text of length 1..199, the first eight
ExtractFeatures(text) ==
  LET lines == SelectSeq(Map(SplitAny(text, FeatureSeparators), trim),
                         LAMBDA line : Len(line) > 0 /\ Len(line) < MAX_FEATURE)
  IN  SubSeq(lines, 1, IF Len(lines) < MAX_FEATURES THEN Len(lines) ELSE MAX_FEATURES)

ElementGate_flat(text) == Len(text) > MIN_TEXT /\ Len(text) < MAX_TEXT_flat

\* "Only add if we found meaningful information"
Meaningful_flat(price, planName, features) ==
  price # <<>> \/ planName # UNKNOWN_PLAN \/ Len(features) > 0

\* the fields of the records extractPricingInfo returns for a document
ExtractFields_flat(doc) ==
  LET els == RemoveScripts(doc)
      texts == SelectSeq(Map(PricingElementTexts_flat(els), trim), ElementGate_flat)
      fields == Map(texts, LAMBDA text :
                  [planName |-> ExtractPlanName_flat(text),
                   price |-> ExtractPrice_flat(text),
                   features |-> ExtractFeatures(text)])
  IN  SelectSeq(fields, LAMBDA f : Meaningful_flat(f.price, f.planName, f.features))

\* the extracted fields of each served document
Fields_flat ==
  <<ExtractFields_flat(DocRoot), ExtractFields_flat(DocPricing),
    ExtractFields_flat(DocPlan), ExtractFields_flat(DocBare)>>

\* results.push({ domain: new URL(url).hostname, planName, price, features, url,
\* scrapedAt }) for each kept element
PlanRecords_flat(fields, url) ==
  Map(fields, LAMBDA f :
     [domain |-> Str(Hostname(url)), planName |-> f.planName, price |-> f.price,
      features |-> f.features, url |-> Str(url)])

\* extractPricingInfo($, url) for the document Docs[k]; scrapedAt is not modelled
extractPricingInfo_flat(k, url) ==
  IF k = 0 THEN <<>> ELSE PlanRecords_flat(Fields_flat[k], url)

-----------------------------------------------------------------------------
(* findPricingPage, src/app/api/scrape/route.ts                            *)

PricingHrefs_flat(doc) ==
  LET links == SelectSeq(doc, LAMBDA el :
                 /\ el.tag = <<"a">>
                 /\ el.href # <<>>
                 /\ \E k \in 1..Len(LINK_SUBSTRINGS_flat) :
                       includes(el.href, LINK_SUBSTRINGS_flat[k]))
  IN  Map(links, LAMBDA el : el.href)

CollectLinks_flat(doc, base) ==
  LET hrefs == PricingHrefs_flat(doc)
      bad == {k \in 1..Len(hrefs) :
                ~startsWith(hrefs[k], <<"h", "t", "t", "p">>) /\ ~ResolveOk(hrefs[k], base)}
      n == IF bad = {} THEN Len(hrefs) ELSE Min(bad) - 1
  IN  [urls |-> Map(SubSeq(hrefs, 1, n), LAMBDA href : FullUrl(href, base)),
       threw |-> bad # {}]

-----------------------------------------------------------------------------
(* POST, src/app/api/scrape/route.ts: the handler that returns one flat    *)
(* list of records                                                         *)

NO_PRICING_FEATURE == <<"N", "o", " ", "p", "r", "i", "c", "i", "n", "g", " ", "i", "n", "f", "o", "r", "m", "a", "t", "i", "o", "n", " ", "d", "e", "t", "e", "c", "t", "e", "d", " ", "o", "n", " ", "t", "h", "i", "s", " ", "w", "e", "b", "s", "i", "t", "e">>

\* the message of the exception domain.startsWith throws for entry d, "" if none
ThrownBy_flat(d) ==
  IF d.type # "string" THEN <<"d", "o", "m", "a", "i", "n", ".", "s", "t", "a", "r", "t", "s", "W", "i", "t", "h", " ", "i", "s", " ", "n", "o", "t", " ", "a", " ", "f", "u", "n", "c", "t", "i", "o", "n">> ELSE <<>>

\* the record pushed by the catch of the loop body
ErrorRecord_flat(d, message) ==
  [domain |-> d, planName |-> ERROR_NAME, price |-> N_A,
   features |-> << <<"E", "r", "r", "o", "r", ":", " ">> \o message >>, url |-> d]

\* the record pushed by "If no pricing found, add a basic entry"
NoPricingRecord_flat(base) ==
  [domain |-> Str(Hostname(base)), planName |-> NO_PRICING_FOUND, price |-> N_A,
   features |-> <<NO_PRICING_FEATURE>>, url |-> Str(base)]

\* results.filter(r => r.domain === new URL(baseUrl).hostname).length === 0
NoneOfDomain(rs, base) ==
  \A k \in 1..Len(rs) : rs[k].domain # Str(Hostname(base))

\* what the end of the loop body appends to rs for entry d: the error record when
\* new URL(baseUrl) throws, the basic entry when the filter finds no record, else nothing
Closing(rs, d, base) ==
  IF ~ParseURL(base).ok THEN <<ErrorRecord_flat(d, <<"I", "n", "v", "a", "l", "i", "d", " ", "U", "R", "L">>)>>
  ELSE IF NoneOfDomain(rs, base) THEN <<NoPricingRecord_flat(base)>>
  ELSE <<>>

RECURSIVE Sum(_)
\* the sum of a sequence of numbers
Sum(ns) == IF ns = <<>> THEN 0 ELSE ns[1] + Sum(Tail(ns))

InternalError_flat ==
  /\ pc = "request"
  /\ body.kind \in {"invalid_json", "null"}
  /\ response' = [status |-> 500, error |-> "Internal server error"]
  /\ pc' = "done"
  /\ UNCHANGED <<body, i, baseUrl, pricingUrls, p, urlsToScrape, u, allPlans,
                 domainResults, requests, reached, reachlog, fvars, xvars, hvars>>

ValidationError_flat ==
  /\ pc = "request"
  /\ body.kind \notin {"invalid_json", "null"}
  /\ InvalidDomains(Domains)
  /\ response' = [status |-> 400, error |-> "Please provide a valid array of domains"]
  /\ pc' = "done"
  /\ UNCHANGED <<body, i, baseUrl, pricingUrls, p, urlsToScrape, u, allPlans,
                 domainResults, requests, reached, reachlog, fvars, xvars, hvars>>

Accept_flat ==
  /\ pc = "request"
  /\ body.kind \notin {"invalid_json", "null"}
  /\ ~InvalidDomains(Domains)
  /\ pc' = "domain"
  /\ i' = 1
  /\ UNCHANGED <<body, baseUrl, pricingUrls, p, urlsToScrape, u, allPlans,
                 domainResults, response, requests, reached, reachlog, fvars, xvars, hvars>>

\* domain.startsWith throws: the catch pushes the error record
DomainError_flat ==
  /\ pc = "domain"
  /\ i <= Len(Domains.items)
  /\ ThrownBy_flat(Domains.items[i]) # <<>>
  /\ results' = Append(results,
                       ErrorRecord_flat(Domains.items[i], ThrownBy_flat(Domains.items[i])))
  /\ appended' = Append(appended, 1)
  /\ reachlog' = Append(reachlog, FALSE)
  /\ i' = i + 1
  /\ UNCHANGED <<body, pc, baseUrl, pricingUrls, p, urlsToScrape, u, allPlans,
                 domainResults, response, requests, reached, xvars, hvars>>

\* baseUrl is computed; findPricingPage is called
StartDomain_flat ==
  /\ pc = "domain"
  /\ i <= Len(Domains.items)
  /\ ThrownBy_flat(Domains.items[i]) = <<>>
  /\ baseUrl' = BaseUrlOf(Domains.items[i])
  /\ pricingUrls' = <<>>
  /\ urlsToScrape' = <<>>
  /\ p' = 0
  /\ u' = 0
  /\ reached' = FALSE
  /\ pc' = "root"
  /\ UNCHANGED <<body, i, allPlans, domainResults, response, requests, reachlog,
                 fvars, xvars, hvars>>

RootFetchFails_flat ==
  /\ pc = "root"
  /\ requests' = requests + 1
  /\ UNCHANGED reached
  /\ Located(<<>>)
  /\ UNCHANGED <<body, i, baseUrl, p, allPlans, domainResults, response, reachlog,
                 fvars, xvars, hvars>>

RootFetchOk_flat ==
  /\ pc = "root"
  /\ DefaultValid(Web(baseUrl).status)
  /\ requests' = requests + 1
  /\ reached' = TRUE
  /\ LET links == CollectLinks_flat(Served(baseUrl), baseUrl)
     IN  IF links.threw
         THEN Located(links.urls) /\ p' = p
         ELSE /\ pricingUrls' = links.urls
              /\ p' = 1
              /\ pc' = "probe"
              /\ UNCHANGED <<urlsToScrape, u>>
  /\ UNCHANGED <<body, i, baseUrl, allPlans, domainResults, response, reachlog,
                 fvars, xvars, hvars>>

Probed_flat(found) ==
  IF p < Len(PRICING_PATHS_flat)
  THEN pricingUrls' = found /\ p' = p + 1 /\ UNCHANGED <<pc, urlsToScrape, u>>
  ELSE Located(found) /\ p' = p

ProbeFails_flat ==
  /\ pc = "probe"
  /\ requests' = requests + 1
  /\ UNCHANGED reached
  /\ Probed_flat(pricingUrls)
  /\ UNCHANGED <<body, i, baseUrl, allPlans, domainResults, response, reachlog,
                 fvars, xvars, hvars>>

ProbeOk_flat ==
  /\ pc = "probe"
  /\ LET pricingUrl == ResolveHref(PRICING_PATHS_flat[p], baseUrl)
     IN  /\ DefaultValid(Web(pricingUrl).status)
         /\ Probed_flat(IF ProbeAdds(Web(pricingUrl).status)
                        THEN Append(pricingUrls, pricingUrl) ELSE pricingUrls)
  /\ requests' = requests + 1
  /\ reached' = TRUE
  /\ UNCHANGED <<body, i, baseUrl, allPlans, domainResults, response, reachlog,
                 fvars, xvars, hvars>>

ScrapeFails_flat ==
  /\ pc = "scrape"
  /\ u <= Len(urlsToScrape)
  /\ requests' = requests + 1
  /\ UNCHANGED reached
  /\ u' = u + 1
  /\ UNCHANGED <<body, pc, i, baseUrl, pricingUrls, p, urlsToScrape, allPlans,
                 domainResults, response, reachlog, fvars, xvars, hvars>>

\* axios.get(url) answers with a 2xx status: the document's records are pushed
ScrapeOk_flat ==
  /\ pc = "scrape"
  /\ u <= Len(urlsToScrape)
  /\ DefaultValid(Web(urlsToScrape[u]).status)
  /\ requests' = requests + 1
  /\ reached' = TRUE
  /\ results' = results \o extractPricingInfo_flat(Web(urlsToScrape[u]).doc, urlsToScrape[u])
  /\ u' = u + 1
  /\ UNCHANGED <<body, pc, i, baseUrl, pricingUrls, p, urlsToScrape, allPlans,
                 domainResults, response, reachlog, appended, xvars, hvars>>

\* the scrape loop is over: the "no pricing found" check, or the catch of the loop body
Close_flat ==
  /\ pc = "scrape"
  /\ u > Len(urlsToScrape)
  /\ results' = results \o Closing(results, Domains.items[i], baseUrl)
  /\ appended' = Append(appended, Len(results') - Sum(appended))
  /\ reachlog' = Append(reachlog, reached)
  /\ i' = i + 1
  /\ pc' = "domain"
  /\ UNCHANGED <<body, baseUrl, pricingUrls, p, urlsToScrape, u, allPlans,
                 domainResults, response, requests, reached, xvars, hvars>>

\* the loop over domains is over: NextResponse.json({ results })
Respond_flat ==
  /\ pc = "domain"
  /\ i > Len(Domains.items)
  /\ response' = [status |-> 200, results |-> results]
  /\ pc' = "done"
  /\ UNCHANGED <<body, i, baseUrl, pricingUrls, p, urlsToScrape, u, allPlans,
                 domainResults, requests, reached, reachlog, fvars, xvars, hvars>>

NextFlat ==
  \/ InternalError_flat
  \/ ValidationError_flat
  \/ Accept_flat
  \/ DomainError_flat
  \/ StartDomain_flat
  \/ RootFetchFails_flat
  \/ RootFetchOk_flat
  \/ ProbeFails_flat
  \/ ProbeOk_flat
  \/ ScrapeFails_flat
  \/ ScrapeOk_flat
  \/ Close_flat
  \/ Respond_flat

SpecFlat == Init /\ [][NextFlat]_vars

-----------------------------------------------------------------------------
(* extractPricingInfo run on its own, on documents built from sample       *)
(* elements                                                                *)

\* a text of 200 characters that holds no keyword, no price and no separator
LongText == Map([k \in 1..MAX_FEATURE |-> "x"], LAMBDA c : c)

\* the elements sample documents are built from
SampleElements ==
  { El(<<"d", "i", "v">>, <<"p", "r", "i", "c", "i", "n", "g", "-", "c", "a", "r", "d">>, <<>>, <<"P", "r", "o", " ", "P", "l", "a", "n", " ", "$", "2", "9", ".", "9", "9", " ", "p", "e", "r", " ", "m", "o", "n", "t", "h">>),
    El(<<"d", "i", "v">>, <<"p", "r", "i", "c", "i", "n", "g", "-", "n", "o", "t", "e">>, <<>>, <<"C", "o", "n", "t", "a", "c", "t", " ", "u", "s", " ", "t", "o", "d", "a", "y", "!", "!">>),
    El(<<"d", "i", "v">>, <<"p", "r", "i", "c", "i", "n", "g", "-", "l", "o", "n", "g">>, <<>>, LongText),
    El(<<"m", "a", "i", "n">>, <<>>, <<>>, <<"W", "e", "l", "c", "o", "m", "e", " ", "t", "o", " ", "o", "u", "r", " ", "s", "i", "t", "e">>),
    El(<<"s", "c", "r", "i", "p", "t">>, <<>>, <<>>, <<"v", "a", "r", " ", "p", "r", "i", "c", "e", " ", "=", " ", "$", "5">>),
    El(<<"p">>, <<>>, <<>>, <<"B", "a", "s", "i", "c", " ", "c", "o", "s", "t", "s", " ", "5", " ", "d", "o", "l", "l", "a", "r", "s">>),
    El(<<"s", "p", "a", "n">>, <<>>, <<>>, <<"$", "5", " ", "a", " ", "p", "l", "a", "n">>),
    El(<<"d", "i", "v">>, <<"p", "r", "i", "c", "i", "n", "g", "-", "c", "a", "r", "d">>, <<>>, <<"T", "e", "a", "m", " ", "U+20AC", "1", "0", " ", "o", "r", " ", "$", "1", ",", "2", "9", "9">>),
    El(<<"d", "i", "v">>, <<"p", "r", "i", "c", "i", "n", "g", "-", "c", "a", "r", "d">>, <<>>, <<"P", "r", "o", " ", "$", "2", "9", ".", "9", "9">>) }

\* the most elements of a sample document
MaxElements == 2

Documents == SeqsUpTo(SampleElements, MaxElements) \ {<<>>}

\* the URL the sample documents are scraped from
SampleUrl == <<"h", "t", "t", "p", "s", ":", "/", "/", "a", ".", "c", "o", "m", "/", "p", "r", "i", "c", "i", "n", "g">>

InitExtract ==
  /\ body = [kind |-> "null", domains |-> Undefined]
  /\ document \in Documents
  /\ Idle

\* extractPricingInfo of src/app/page.tsx returns
ExtractPage ==
  /\ variant = ""
  /\ variant' = "page"
  /\ extracted' = PlanRecords(ExtractFields(document), SampleUrl)
  /\ UNCHANGED <<body, pc, i, baseUrl, pricingUrls, p, urlsToScrape, u, allPlans,
                 domainResults, response, requests, reached, reachlog, fvars, document, csvContent, downloaded, hvars>>

\* extractPricingInfo of src/app/api/scrape/route.ts returns
ExtractFlat ==
  /\ variant = ""
  /\ variant' = "flat"
  /\ extracted' = PlanRecords_flat(ExtractFields_flat(document), SampleUrl)
  /\ UNCHANGED <<body, pc, i, baseUrl, pricingUrls, p, urlsToScrape, u, allPlans,
                 domainResults, response, requests, reached, reachlog, fvars, document, csvContent, downloaded, hvars>>

\* const headers of downloadCSV
CSV_HEADERS ==
  << <<"D", "o", "m", "a", "i", "n">>, <<"P", "l", "a", "n", " ", "N", "a", "m", "e">>, <<"P", "r", "i", "c", "e">>, <<"F", "e", "a", "t", "u", "r", "e", "s">>, <<"U", "R", "L">>, <<"S", "c", "r", "a", "p", "e", "d", " ", "A", "t">> >>

\* a capture time, as new Date().toISOString() writes it
SampleScrapedAt == <<"2", "0", "2", "4", "-", "0", "1", "-", "0", "1", "T", "0", "0", ":", "0", "0", ":", "0", "0", ".", "0", "0", "0", "Z">>

\* the row of one record: planName and the joined features are put between
\* double quotes, the other fields are written as they are
CsvRow(result) ==
  Join(<< result.domain.s,
          <<"\"">> \o result.planName \o <<"\"">>,
          result.price,
          <<"\"">> \o Join(result.features, <<";", " ">>) \o <<"\"">>,
          result.url.s,
          SampleScrapedAt >>, <<",">>)

\* csvContent of downloadCSV for results rs; nothing is built for no result
downloadCSV(rs) ==
  IF Len(rs) = 0 THEN <<>>
  ELSE Join(<<Join(CSV_HEADERS, <<",">>)>> \o Map(rs, CsvRow), <<"\n">>)

\* the export button is pressed on the records of the flat-results variant
DownloadCSV ==
  /\ variant = "flat"
  /\ ~downloaded
  /\ downloaded' = TRUE
  /\ csvContent' = downloadCSV(extracted)
  /\ UNCHANGED <<body, pc, i, baseUrl, pricingUrls, p, urlsToScrape, u, allPlans,
                 domainResults, response, requests, reached, reachlog, fvars, document,
                 variant, extracted, hvars>>

NextExtract ==
  \/ ExtractPage
  \/ ExtractFlat
  \/ DownloadCSV

SpecExtract == InitExtract /\ [][NextExtract]_vars

-----------------------------------------------------------------------------
(* Properties of the handler that returns one DomainResult per domain      *)

\* domains is a non-empty array
NonEmptyArray == body.kind = "object" /\ Domains.type = "array" /\ Len(Domains.items) > 0

\* the url of the DomainResult produced for entry d: its base URL, or the entry
\* itself when the loop body threw
UrlFor(d) == IF ThrownBy(d) = "" THEN Str(BaseUrlOf(d)) ELSE d

\* plan is one of the two sentinel records
IsSentinel(plan) == plan.planName \in {NO_PRICING_FOUND, ERROR_NAME} /\ plan.price = N_A

\* plan carries fields that extractPricingInfo emits for some served document
Genuine(plan) ==
  \E k \in 1..Len(Fields) : \E j \in 1..Len(Fields[k]) :
     /\ plan.planName = Fields[k][j].planName
     /\ plan.price = Fields[k][j].price
     /\ plan.pricingModel = Fields[k][j].pricingModel

C2_UnreachableIsError ==
  \A k \in 1..Len(domainResults) :
     (ThrownBy(Domains.items[k]) = "" /\ ~reachlog[k]) =>
        /\ domainResults[k].status = "error"
        /\ domainResults[k].errorMessage # ""
        /\ Len(domainResults[k].plans) = 1
        /\ domainResults[k].plans[1].planName = ERROR_NAME
        /\ domainResults[k].plans[1].price = N_A

\* a valid domain whose every request failed, classified no_pricing
C2_UnreachableNoPricing ==
  \E k \in 1..Len(domainResults) :
     /\ ThrownBy(Domains.items[k]) = ""
     /\ ~reachlog[k]
     /\ domainResults[k].status = "no_pricing"
     /\ domainResults[k].plans[1].planName = NO_PRICING_FOUND

\* C3: the status of every DomainResult: "error" exactly when the loop body threw,
\* with the one "Error" sentinel; "success" exactly when plans holds a genuine
\* record, and then no sentinel; "no_pricing" exactly when nothing threw and no
\* record was accumulated, with the one "No pricing found" sentinel
C3_StatusClassification ==
  /\ \A k \in 1..Len(domainResults) :
        LET r == domainResults[k]
        IN  /\ r.status \in {"success", "no_pricing", "error"}
            /\ r.status = "error" <=> ThrownBy(Domains.items[k]) # ""
            /\ r.status = "error" =>
                  /\ Len(r.plans) = 1
                  /\ r.plans[1].planName = ERROR_NAME
                  /\ r.plans[1].price = N_A
            /\ r.status = "no_pricing" =>
                  /\ Len(r.plans) = 1
                  /\ r.plans[1].planName = NO_PRICING_FOUND
                  /\ r.plans[1].price = N_A
            /\ r.status = "success" <=> \E j \in 1..Len(r.plans) : Genuine(r.plans[j])
            /\ r.status = "success" =>
                  \A j \in 1..Len(r.plans) : Genuine(r.plans[j]) /\ ~IsSentinel(r.plans[j])
  /\ (pc \in {"domain", "done"} /\ i > 1 /\ ThrownBy(Domains.items[i - 1]) = "") =>
        /\ domainResults[i - 1].status = "no_pricing" <=> allPlans = <<>>
        /\ domainResults[i - 1].status = "success" => domainResults[i - 1].plans = allPlans

\* a success followed by a domain that answered and gave no plan
C3_Witness ==
  /\ Len(domainResults) = 2
  /\ domainResults[1].status = "success"
  /\ domainResults[2].status = "no_pricing"
  /\ reachlog[2]

\* C4: every DomainResult has a non-empty plans sequence; a result that is not a
\* success holds exactly one sentinel record
C4_PlansNonEmpty ==
  \A k \in 1..Len(domainResults) :
     /\ Len(domainResults[k].plans) >= 1
     /\ domainResults[k].status # "success" =>
           Len(domainResults[k].plans) = 1 /\ IsSentinel(domainResults[k].plans[1])

\* a no_pricing result and an error result, each with its sentinel
C4_Witness ==
  /\ Len(domainResults) = 2
  /\ domainResults[1].status = "no_pricing"
  /\ domainResults[2].status = "error"
  /\ IsSentinel(domainResults[1].plans[1])
  /\ IsSentinel(domainResults[2].plans[1])

\* C5: in every success response the summary's total is the sum of its three
\* tallies and the number of submitted domains, each result falling in one tally
C5_SummaryAddsUp ==
  response.status = 200 =>
     /\ response.summary.totalDomains =
           response.summary.successful + response.summary.noPricing
             + response.summary.errors
     /\ response.summary.totalDomains = Len(Domains.items)
     /\ \A k \in 1..Len(response.results) :
           response.results[k].status \in {"success", "no_pricing", "error"}

\* a success response that tallies one success and one error
C5_Witness ==
  /\ response.status = 200
  /\ response.summary.successful = 1
  /\ response.summary.errors = 1
  /\ response.summary.totalDomains = 2

\* C6: a request whose domains is missing, not an array or an empty array is
\* answered 400 with the validation error; no DomainResult is produced and no
\* request is issued
C6_ValidationRejects ==
  (body.kind \in {"object", "number"} /\ ~NonEmptyArray) =>
     /\ requests = 0
     /\ domainResults = <<>>
     /\ response.status \in {0, 400}
     /\ pc = "done" =>
           response = [status |-> 400, error |-> "Please provide a valid array of domains"]

\* the empty array, rejected
C6_Witness ==
  /\ pc = "done"
  /\ body.kind = "object"
  /\ Domains.type = "array"
  /\ Len(Domains.items) = 0
  /\ response.status = 400

\* C7: every malformed request, a body that is no JSON or no object included, is
\* answered 400 and never 500
C7_MalformedIsClientError ==
  (pc = "done" /\ ~NonEmptyArray) => response.status = 400

\* the JSON null, answered 500
C7_NullBodyIs500 ==
  /\ pc = "done"
  /\ body.kind = "null"
  /\ response.status = 500

-----------------------------------------------------------------------------
(* Properties of the handler that returns a flat list of records           *)

\* C9: processing each position of domains appends at least one record, also
\* when earlier positions left records that carry the same domain
C9_EveryPositionAppends ==
  \A k \in 1..Len(appended) : appended[k] >= 1

\* the answer to a batch of two entries, the second of which appended nothing
C9_SilentOmission ==
  /\ pc = "done"
  /\ response.status = 200
  /\ Len(appended) = 2
  /\ appended[1] >= 1
  /\ appended[2] = 0
  /\ Len(response.results) = appended[1]

-----------------------------------------------------------------------------
(* Properties of extractPricingInfo                                        *)

\* C10: no record extractPricingInfo returns has an empty price together with the
\* plan name "Unknown Plan" (and, where features are collected, no feature),
\* whether an element or a line gave it
C10_RejectionInvariant ==
  \A k \in 1..Len(extracted) :
     ~ /\ extracted[k].price = <<>>
       /\ extracted[k].planName = UNKNOWN_PLAN
       /\ variant = "flat" => extracted[k].features = <<>>

\* of a note without signal and a pricing card, only the card gives a record
C10_Witness ==
  /\ variant = "page"
  /\ Len(document) = 2
  /\ document[1].text = <<"C", "o", "n", "t", "a", "c", "t", " ", "u", "s", " ", "t", "o", "d", "a", "y", "!", "!">>
  /\ document[2].text = <<"P", "r", "o", " ", "P", "l", "a", "n", " ", "$", "2", "9", ".", "9", "9", " ", "p", "e", "r", " ", "m", "o", "n", "t", "h">>
  /\ Len(extracted) = 1
  /\ extracted[1].price = <<"$", "2", "9", ".", "9", "9">>

-----------------------------------------------------------------------------
(* Properties of the tiers of extractPricingInfo                           *)

\* the fields extractPricingInfo of src/app/page.tsx reads from the text of an element
FieldsOf(text) ==
  [planName |-> ExtractPlanName(text), price |-> ExtractPrice(text),
   pricingModel |-> ExtractModel(text)]

\* record r carries the fields of the text of some element of els
BuiltFrom(r, els) ==
  \E k \in 1..Len(els) :
     LET f == FieldsOf(trim(els[k].text))
     IN  r.planName = f.planName /\ r.price = f.price /\ r.pricingModel = f.pricingModel

\* C11: when some element of the document matches a selector of the first tier,
\* every record returned is built from the text of such an element: neither the
\* keyword scan nor the line scan contributes
C11_TierOneOnly ==
  (variant = "page" /\ Tier1(RemoveScripts(document)) # <<>>) =>
     \A k \in 1..Len(extracted) : BuiltFrom(extracted[k], Tier1(RemoveScripts(document)))

\* a document whose one first-tier element carries no signal, and the record the
\* line scan returns for another element
C11_LineScanAfterTierOne ==
  /\ variant = "page"
  /\ Len(document) = 2
  /\ document[1].tag = <<"m", "a", "i", "n">>
  /\ document[2].text = <<"B", "a", "s", "i", "c", " ", "c", "o", "s", "t", "s", " ", "5", " ", "d", "o", "l", "l", "a", "r", "s">>
  /\ Len(extracted) = 1
  /\ extracted[1].planName = <<"C", "o", "s", "t">>
  /\ extracted[1].price = <<"5", " ", "d", "o", "l", "l", "a", "r", "s">>

\* the document of the pricing-card scenario
CardDocument ==
  <<El(<<"d", "i", "v">>, <<"p", "r", "i", "c", "i", "n", "g", "-", "c", "a", "r", "d">>, <<>>, <<"P", "r", "o", " ", "P", "l", "a", "n", " ", "$", "2", "9", ".", "9", "9", " ", "p", "e", "r", " ", "m", "o", "n", "t", "h">>)>>

\* C12: the document <div class="pricing-card">Pro Plan $29.99 per month</div>
\* gives exactly one record, with planName "Pro", price "$29.99" and a
\* pricingModel that names the month
C12_CardScenario ==
  (variant = "page" /\ document = CardDocument) =>
     /\ Len(extracted) = 1
     /\ extracted[1].planName = <<"P", "r", "o">>
     /\ extracted[1].price = <<"$", "2", "9", ".", "9", "9">>
     /\ includes(toLowerCase(extracted[1].pricingModel), <<"m", "o", "n", "t", "h">>)

\* the record the pricing card gives: planName "Plan"
C12_CardGivesPlan ==
  /\ variant = "page"
  /\ document = CardDocument
  /\ Len(extracted) = 1
  /\ extracted[1].planName = <<"P", "l", "a", "n">>
  /\ extracted[1].price = <<"$", "2", "9", ".", "9", "9">>
  /\ extracted[1].pricingModel = <<"P", "e", "r", " ", "m", "o", "n", "t", "h">>

-----------------------------------------------------------------------------
(* Properties of findPricingPage                                           *)

\* the URLs findPricingPage collected for the domain being processed, in the order
\* of their discovery: the links of the root page, then the probed paths that
\* answered 200
Discovered ==
  CollectLinks(Served(baseUrl), baseUrl).urls
    \o Map(SelectSeq(heads, LAMBDA h : h.status = 200), LAMBDA h : h.url)

\* the index of the first occurrence of x in s
FirstIndex(s, x) == Min({k \in 1..Len(s) : s[k] = x})

\* the catalog index of the path a probed URL was resolved from
PathIndex(url) == Min({j \in 1..Len(PRICING_PATHS) : ResolveHref(PRICING_PATHS[j], baseUrl) = url})

\* C13: findPricingPage returns each URL once (two anchors, or an anchor and a
\* probed path, that resolve to the same URL give it once), in the order of first
\* discovery: the link-derived URLs in document order, then the probed URLs in
\* catalog order
C13_LocatorOrderedSet ==
  (pc = "scrape" /\ fetchlog # <<>> /\ fetchlog[1].ok /\ Discovered # <<>>) =>
     /\ \A k, l \in 1..Len(urlsToScrape) : k < l => urlsToScrape[k] # urlsToScrape[l]
     /\ {urlsToScrape[k] : k \in 1..Len(urlsToScrape)}
           = {Discovered[k] : k \in 1..Len(Discovered)}
     /\ \A k, l \in 1..Len(urlsToScrape) :
           k < l => FirstIndex(Discovered, urlsToScrape[k]) < FirstIndex(Discovered, urlsToScrape[l])
     /\ \A k, l \in 1..Len(heads) : k < l => PathIndex(heads[k].url) < PathIndex(heads[l].url)

\* the root page of a.com has two anchors that resolve to https://a.com/pricing,
\* the probe of /pricing succeeds as well, and the URL is returned once, before
\* the probed https://a.com/plan
C13_Witness ==
  /\ pc = "scrape"
  /\ baseUrl = <<"h", "t", "t", "p", "s", ":", "/", "/", "a", ".", "c", "o", "m">>
  /\ Len(PricingHrefs(Served(baseUrl))) = 2
  /\ \E k \in 1..Len(heads) : heads[k].url = <<"h", "t", "t", "p", "s", ":", "/", "/", "a", ".", "c", "o", "m", "/", "p", "r", "i", "c", "i", "n", "g">> /\ heads[k].status = 200
  /\ urlsToScrape = << <<"h", "t", "t", "p", "s", ":", "/", "/", "a", ".", "c", "o", "m", "/", "p", "r", "i", "c", "i", "n", "g">>, <<"h", "t", "t", "p", "s", ":", "/", "/", "a", ".", "c", "o", "m", "/", "p", "l", "a", "n">> >>

RECURSIVE PlansOf(_)
\* the records of the answered fetches of a log of scrape requests, in its order
PlansOf(log) ==
  IF log = <<>> THEN <<>>
  ELSE (IF log[1].ok THEN extractPricingInfo(Web(log[1].url).doc, log[1].url) ELSE <<>>)
         \o PlansOf(Tail(log))

\* the result that entry d and the answers to its requests determine: log holds
\* the root fetch and then the scrape fetches
ResultOf(d, log) ==
  IF ThrownBy(d) # "" THEN ErrorResult(d, ThrownBy(d))
  ELSE Classified(BaseUrlOf(d), PlansOf(Tail(log)))

\* C14: the result pushed for a domain is determined by that entry and by the
\* answers to its own requests, whatever was processed before it in the batch,
\* earlier occurrences of the same domain included
C14_DomainIndependence ==
  [][ /\ DomainError => domainResults' = Append(domainResults, ResultOf(Domains.items[i], <<>>))
      /\ Classify => domainResults' = Append(domainResults, ResultOf(Domains.items[i], fetchlog))
    ]_vars

\* a.com is submitted twice: the first occurrence yields plans, the second, whose
\* requests all fail, yields none of them
C14_Witness ==
  /\ pc = "done"
  /\ Len(domainResults) = 2
  /\ Domains.items[1] = Domains.items[2]
  /\ Domains.items[1].s = <<"a", ".", "c", "o", "m">>
  /\ domainResults[1].status = "success"
  /\ domainResults[2].status = "no_pricing"

\* v is a string that is a host name: no scheme separator, no path, no space
BareHostname(v) ==
  /\ v.type = "string"
  /\ v.s # <<>>
  /\ \A k \in 1..Len(v.s) : v.s[k] \notin {":", "/", " "}

\* C15: the domain of every plan record of every DomainResult, the sentinel
\* records and the error path included, is a bare host name, without scheme or path
C15_PlanDomainIsHostname ==
  \A k \in 1..Len(domainResults) : \A l \in 1..Len(domainResults[k].plans) :
     BareHostname(domainResults[k].plans[l].domain)

\* the entry "https://x y/z" is not a URL: the catch stores the entry itself as
\* the domain of the result and of its sentinel record
C15_ErrorKeepsRawEntry ==
  \E k \in 1..Len(domainResults) :
     /\ domainResults[k].status = "error"
     /\ Domains.items[k] = Str(<<"h", "t", "t", "p", "s", ":", "/", "/", "x", " ", "y", "/", "z">>)
     /\ domainResults[k].domain = Str(<<"h", "t", "t", "p", "s", ":", "/", "/", "x", " ", "y", "/", "z">>)
     /\ domainResults[k].plans[1].planName = ERROR_NAME
     /\ domainResults[k].plans[1].domain = Str(<<"h", "t", "t", "p", "s", ":", "/", "/", "x", " ", "y", "/", "z">>)

\* the text carries a URL scheme
HasScheme(s) == startsWith(s, HTTP) \/ startsWith(s, HTTPS)

\* C16: for every string entry without a scheme, those whose text begins with
\* "http" included, the base URL is https:// followed by the entry and the host
\* name is derived from it; an entry with a scheme is used unchanged
C16_SchemePrefixed ==
  \A k \in 1..Len(domainResults) :
     LET d == Domains.items[k]
     IN  d.type = "string" =>
           IF HasScheme(d.s)
           THEN domainResults[k].url = d
           ELSE /\ domainResults[k].url = Str(HTTPS \o d.s)
                /\ domainResults[k].domain = Str(Hostname(HTTPS \o d.s))

\* httpbin.org begins with "http": it is taken as the base URL without a prefix,
\* new URL throws and the entry ends as an error result
C16_HttpbinUnprefixed ==
  \E k \in 1..Len(domainResults) :
     /\ Domains.items[k] = Str(<<"h", "t", "t", "p", "b", "i", "n", ".", "o", "r", "g">>)
     /\ ~HasScheme(Domains.items[k].s)
     /\ domainResults[k].status = "error"
     /\ domainResults[k].url = Str(<<"h", "t", "t", "p", "b", "i", "n", ".", "o", "r", "g">>)
     /\ domainResults[k].errorMessage = "Invalid URL"

\* C17: while a domain is processed, a URL whose GET failed is not requested
\* again; in particular the base URL whose root fetch failed in findPricingPage
\* is not fetched a second time by the scrape loop
C17_NoRetry ==
  \A k, l \in 1..Len(fetchlog) :
     (k < l /\ ~fetchlog[k].ok) => fetchlog[l].url # fetchlog[k].url

\* the root fetch of https://down.invalid failed, findPricingPage returned no URL,
\* and the scrape loop has requested the base URL again
C17_BaseUrlFetchedAgain ==
  /\ baseUrl = <<"h", "t", "t", "p", "s", ":", "/", "/", "d", "o", "w", "n", ".", "i", "n", "v", "a", "l", "i", "d">>
  /\ Len(fetchlog) = 2
  /\ fetchlog[1] = [url |-> baseUrl, ok |-> FALSE]
  /\ urlsToScrape = <<baseUrl>>
  /\ fetchlog[2].url = baseUrl

\* C18: findPricingPage returns the URL of every probed path whose response has
\* a status from 200 to 299, not only those answered with 200
C18_ProbeAddsOn2xx ==
  pc = "scrape" =>
    \A k \in 1..Len(heads) :
       (heads[k].status >= 200 /\ heads[k].status <= 299) =>
          \E l \in 1..Len(urlsToScrape) : urlsToScrape[l] = heads[k].url

\* the probe of https://a.com/plans was answered 204 and the URL is not returned
C18_Probe204Dropped ==
  /\ pc = "scrape"
  /\ \E k \in 1..Len(heads) :
        heads[k] = [url |-> <<"h", "t", "t", "p", "s", ":", "/", "/", "a", ".", "c", "o", "m", "/", "p", "l", "a", "n", "s">>, status |-> 204]
  /\ \A l \in 1..Len(urlsToScrape) : urlsToScrape[l] # <<"h", "t", "t", "p", "s", ":", "/", "/", "a", ".", "c", "o", "m", "/", "p", "l", "a", "n", "s">>

\* the non-empty trimmed lines of the text of the body
BodyLines(els) ==
  SelectSeq(Map(Split(BodyText(els), "\n"), trim), LAMBDA l : Len(l) > 0)

\* the line is longer than 10 and shorter than 500 characters and holds a match
\* of a price pattern and a pricing keyword
PriceAndKeywordLine(l) ==
  /\ Len(l) > 10
  /\ Len(l) < 500
  /\ ExtractPrice(l) # <<>>
  /\ PartialPlanName(l) # UNKNOWN_PLAN

\* C19: the line scan runs if and only if the element tiers emitted no record;
\* when it runs, a line gives a record only if its length is strictly between 10
\* and 500 and it holds a price-pattern match and a pricing keyword, so that each
\* of its records has a price and a plan name other than "Unknown Plan"
C19_LineScanOnlyAsFallback ==
  variant = "page" =>
    LET els == RemoveScripts(document)
        lines == SelectSeq(BodyLines(els), PriceAndKeywordLine)
    IN  IF ElementFields(els) # <<>>
        THEN /\ Len(extracted) = Len(ElementFields(els))
             /\ \A k \in 1..Len(extracted) :
                   /\ extracted[k].price = ElementFields(els)[k].price
                   /\ extracted[k].planName = ElementFields(els)[k].planName
        ELSE /\ Len(extracted) = Len(lines)
             /\ \A k \in 1..Len(extracted) :
                   /\ extracted[k].price = ExtractPrice(lines[k])
                   /\ extracted[k].price # <<>>
                   /\ extracted[k].planName # UNKNOWN_PLAN

\* the only selected element, main, gives no record; the line scan runs and the
\* line "Basic costs 5 dollars" gives one, the line "Welcome to our site" none
C19_Witness ==
  /\ variant = "page"
  /\ Len(document) = 2
  /\ document[1].text = <<"W", "e", "l", "c", "o", "m", "e", " ", "t", "o", " ", "o", "u", "r", " ", "s", "i", "t", "e">>
  /\ document[2].text = <<"B", "a", "s", "i", "c", " ", "c", "o", "s", "t", "s", " ", "5", " ", "d", "o", "l", "l", "a", "r", "s">>
  /\ Tier1(RemoveScripts(document)) # <<>>
  /\ ElementFields(RemoveScripts(document)) = <<>>
  /\ Len(extracted) = 1
  /\ extracted[1].price = <<"5", " ", "d", "o", "l", "l", "a", "r", "s">>
  /\ extracted[1].planName # UNKNOWN_PLAN

\* C20: while the candidates of a domain are scraped, the accumulated plans are
\* the concatenation, in candidate order, of the records extracted from the
\* candidates fetched so far whose fetch succeeded; a failed candidate adds
\* nothing, discards nothing, and the candidates after it are still fetched
C20_CandidateAccumulation ==
  pc = "scrape" =>
    LET log == Tail(fetchlog)
    IN  /\ Len(log) = u - 1
        /\ \A k \in 1..Len(log) : log[k].url = urlsToScrape[k]
        /\ allPlans = PlansOf(log)

\* of the two candidates of a.com the first was fetched and gave records, the
\* second failed: the records of the first are all that is accumulated
C20_Witness ==
  /\ pc = "scrape"
  /\ Len(urlsToScrape) = 2
  /\ u = 3
  /\ fetchlog[2] = [url |-> urlsToScrape[1], ok |-> TRUE]
  /\ fetchlog[3] = [url |-> urlsToScrape[2], ok |-> FALSE]
  /\ allPlans # <<>>
  /\ allPlans = extractPricingInfo(Web(urlsToScrape[1]).doc, urlsToScrape[1])

\* the first candidate failed, the second was fetched all the same and its
\* records are accumulated
C20_LaterCandidateFetched ==
  /\ pc = "scrape"
  /\ Len(urlsToScrape) = 2
  /\ u = 3
  /\ ~fetchlog[2].ok
  /\ fetchlog[3] = [url |-> urlsToScrape[2], ok |-> TRUE]
  /\ allPlans # <<>>

\* the URLs findPricingPage returned for the domain being processed
LocatorResult == IF fetchlog[1].ok THEN Dedup(Discovered) ELSE <<>>

\* C21: the URLs fetched and extracted for a domain are exactly those the locator
\* returned when it returned some, and the base URL alone when it returned none;
\* at least one candidate is requested for every domain whose base URL parses
C21_CandidateSet ==
  pc = "scrape" =>
    /\ urlsToScrape = IF LocatorResult # <<>> THEN LocatorResult ELSE <<baseUrl>>
    /\ Len(urlsToScrape) >= 1
    /\ \A k \in 2..Len(fetchlog) : fetchlog[k].url = urlsToScrape[k - 1]
    /\ u > Len(urlsToScrape) => Len(fetchlog) = Len(urlsToScrape) + 1

\* the locator returned no URL for a.com, whose root fetch failed, and the one
\* candidate requested is the base URL
C21_Witness ==
  /\ pc = "scrape"
  /\ baseUrl = <<"h", "t", "t", "p", "s", ":", "/", "/", "a", ".", "c", "o", "m">>
  /\ LocatorResult = <<>>
  /\ urlsToScrape = <<baseUrl>>
  /\ Len(fetchlog) = 2
  /\ fetchlog[2] = [url |-> baseUrl, ok |-> TRUE]

\* C22: when the root fetch of findPricingPage fails, the function returns no URL,
\* raises nothing to its caller and probes no path
C22_RootFailureReturnsEmpty ==
  [][RootFetchFails =>
       /\ pc' = "scrape"
       /\ urlsToScrape' = <<baseUrl>>
       /\ heads' = <<>> /\ probed' = <<>>
       /\ requests' = requests + 1
       /\ UNCHANGED <<domainResults, response>>]_vars

\* the root fetch of a.com failed: the handler is in its scrape loop with the base
\* URL as only candidate, and no path was probed
C22_Witness ==
  /\ pc = "scrape"
  /\ baseUrl = <<"h", "t", "t", "p", "s", ":", "/", "/", "a", ".", "c", "o", "m">>
  /\ fetchlog = << [url |-> baseUrl, ok |-> FALSE] >>
  /\ probed = <<>>
  /\ urlsToScrape = <<baseUrl>>

\* the links of the root document were collected and the probes have started
ProbingStarted ==
  /\ fetchlog # <<>>
  /\ fetchlog[1].ok
  /\ ~CollectLinks(Served(baseUrl), baseUrl).threw

\* C23: once the probes have started, a failing probe is swallowed and does not
\* stop the scan: every path of PRICING_PATHS is probed once, in catalog order,
\* and the URLs collected so far are kept
C23_ProbesNeverAbort ==
  ProbingStarted =>
    LET links == CollectLinks(Served(baseUrl), baseUrl).urls
        done == IF pc = "probe" THEN p - 1 ELSE Len(PRICING_PATHS)
        kept == links \o Map(SelectSeq(heads, LAMBDA h : h.status = 200), LAMBDA h : h.url)
    IN  /\ probed = [k \in 1..done |-> k]
        /\ \A k \in 1..Len(heads) :
              \E l \in 1..Len(probed) : heads[k].url = ResolveHref(PRICING_PATHS[l], baseUrl)
        /\ pc = "probe" => pricingUrls = kept
        /\ pc = "scrape" => urlsToScrape = (IF Dedup(kept) # <<>> THEN Dedup(kept) ELSE <<baseUrl>>)

\* the probe of /pricing of a.com failed, the scan went on through the catalog,
\* and the later probe of /plan added its URL after the link collected before
C23_Witness ==
  /\ pc = "scrape"
  /\ baseUrl = <<"h", "t", "t", "p", "s", ":", "/", "/", "a", ".", "c", "o", "m">>
  /\ Len(probed) = Len(PRICING_PATHS)
  /\ \A k \in 1..Len(heads) : heads[k].url # <<"h", "t", "t", "p", "s", ":", "/", "/", "a", ".", "c", "o", "m", "/", "p", "r", "i", "c", "i", "n", "g">>
  /\ \E k \in 1..Len(heads) : heads[k] = [url |-> <<"h", "t", "t", "p", "s", ":", "/", "/", "a", ".", "c", "o", "m", "/", "p", "l", "a", "n">>, status |-> 200]
  /\ urlsToScrape = << <<"h", "t", "t", "p", "s", ":", "/", "/", "a", ".", "c", "o", "m", "/", "p", "r", "i", "c", "i", "n", "g">>, <<"h", "t", "t", "p", "s", ":", "/", "/", "a", ".", "c", "o", "m", "/", "p", "l", "a", "n">> >>

\* C24: an element of the element tiers is considered for field extraction if and
\* only if the length of its trimmed text is in the closed interval [10, 3000]:
\* an element of exactly 10 characters that carries signal gives a record
C24_ClosedLengthGate ==
  variant = "page" =>
    LET t1 == Tier1(RemoveScripts(document))
    IN  \A k \in 1..Len(t1) :
          LET t == trim(t1[k].text)
          IN  (Len(t) >= 10 /\ Len(t) <= 3000 /\ Meaningful(ExtractPrice(t), ExtractPlanName(t)))
                => \E l \in 1..Len(extracted) : BuiltFrom(extracted[l], <<t1[k]>>)

\* the card "Pro $29.99" has exactly 10 characters, a price and a plan name, and
\* gives no record
C24_TenCharactersRejected ==
  /\ variant = "page"
  /\ document = << El(<<"d", "i", "v">>, <<"p", "r", "i", "c", "i", "n", "g", "-", "c", "a", "r", "d">>, <<>>, <<"P", "r", "o", " ", "$", "2", "9", ".", "9", "9">>) >>
  /\ Len(trim(document[1].text)) = 10
  /\ ExtractPrice(document[1].text) = <<"$", "2", "9", ".", "9", "9">>
  /\ ExtractPlanName(document[1].text) = <<"P", "r", "o">>
  /\ extracted = <<>>

\* the trimmed texts of the Tier-1 elements that pass the length gate
GatedTexts(doc) ==
  SelectSeq(Map(Tier1(RemoveScripts(doc)), LAMBDA el : trim(el.text)),
            LAMBDA t : Len(t) > 10 /\ Len(t) < 3000)

\* the patterns of PRICE_PATTERNS, by index, that match somewhere in text t
MatchingPatterns(t) == {k \in 1..Len(PRICE_PATTERNS) : Test(t, PRICE_PATTERNS[k])}

\* C25: the price of a record is the match of the first pattern, in the order of
\* PRICE_PATTERNS, that matches anywhere in the element's trimmed text, whatever
\* the position of the match in the text; it is empty if and only if no pattern
\* matches
C25_FirstPatternWins ==
  (variant = "page" /\ ElementFields(RemoveScripts(document)) # <<>>
                    /\ Tier1(RemoveScripts(document)) # <<>>) =>
     \A k \in 1..Len(extracted) :
        LET t == SelectSeq(GatedTexts(document),
                           LAMBDA x : MatchingPatterns(x) # {} \/ ExtractPlanName(x) # UNKNOWN_PLAN)[k]
        IN  /\ extracted[k].price = <<>> <=> MatchingPatterns(t) = {}
            /\ MatchingPatterns(t) # {} =>
                  extracted[k].price = Match(t, PRICE_PATTERNS[Min(MatchingPatterns(t))])
            /\ t = <<"T", "e", "a", "m", " ", "U+20AC", "1", "0", " ", "o", "r", " ", "$", "1", ",", "2", "9", "9">> => extracted[k].price = <<"$", "1", ",", "2", "9", "9">>

\* the euro amount comes first in the text, the dollar pattern first in the
\* table: the price is the dollar amount
C25_Witness ==
  /\ variant = "page"
  /\ document = << El(<<"d", "i", "v">>, <<"p", "r", "i", "c", "i", "n", "g", "-", "c", "a", "r", "d">>, <<>>, <<"T", "e", "a", "m", " ", "U+20AC", "1", "0", " ", "o", "r", " ", "$", "1", ",", "2", "9", "9">>) >>
  /\ Test(document[1].text, PRICE_PATTERNS[1])
  /\ Test(document[1].text, PRICE_PATTERNS[2])
  /\ Match(document[1].text, PRICE_PATTERNS[2]) = <<"U+20AC", "1", "0">>
  /\ Len(extracted) = 1
  /\ extracted[1].price = <<"$", "1", ",", "2", "9", "9">>

\* the keywords of the whole table, by index in iteration order, that match text
\* t as a word
ExactKeywords(t) == {k \in 1..Len(KeywordList) : WordTest(t, KeywordList[k])}

\* the keywords of the whole table, by index, that the lower-cased text includes
PartialKeywords(t) ==
  {k \in 1..Len(KeywordList) : includes(toLowerCase(t), toLowerCase(KeywordList[k]))}

\* the trimmed texts of the elements of the element tiers that pass the length
\* gate and carry a price or a keyword
SignalTexts(doc) ==
  SelectSeq(Map(PricingElementTexts(RemoveScripts(doc)), trim),
            LAMBDA t : /\ Len(t) > 10 /\ Len(t) < 3000
                       /\ (MatchingPatterns(t) # {} \/ PartialKeywords(t) # {}))

\* C26: the plan name of an element's record is the first keyword of the table,
\* in iteration order, that matches the text as a word, capitalised; a substring
\* match is used only when no keyword of any language matches as a word, again
\* the first in table order; it is "Unknown Plan" if and only if no keyword
\* matches either way
C26_PlanNameSelection ==
  (variant = "page" /\ ElementFields(RemoveScripts(document)) # <<>>) =>
     /\ Len(extracted) = Len(SignalTexts(document))
     /\ \A k \in 1..Len(extracted) :
          LET t == SignalTexts(document)[k]
          IN  /\ ExactKeywords(t) # {} =>
                    extracted[k].planName = Capitalize(KeywordList[Min(ExactKeywords(t))])
              /\ (ExactKeywords(t) = {} /\ PartialKeywords(t) # {}) =>
                    extracted[k].planName = Capitalize(KeywordList[Min(PartialKeywords(t))])
              /\ extracted[k].planName = UNKNOWN_PLAN
                    <=> (ExactKeywords(t) = {} /\ PartialKeywords(t) = {})

\* "cost" precedes "basic" in the table and is a substring of the text, "basic"
\* matches as a word: the plan name is "Basic"
C26_Witness ==
  /\ variant = "page"
  /\ document = << El(<<"p">>, <<>>, <<>>, <<"B", "a", "s", "i", "c", " ", "c", "o", "s", "t", "s", " ", "5", " ", "d", "o", "l", "l", "a", "r", "s">>) >>
  /\ Min(PartialKeywords(document[1].text)) < Min(ExactKeywords(document[1].text))
  /\ KeywordList[Min(PartialKeywords(document[1].text))] = <<"c", "o", "s", "t">>
  /\ Len(extracted) >= 1
  /\ extracted[1].planName = <<"B", "a", "s", "i", "c">>

\* a domain is being processed: its requests are being made
InDomain == pc \in {"root", "probe", "scrape"}

\* C27: the requests of a batch are made one at a time; the requests of entry
\* i + 1 start only after the result of entry i was appended, and the response
\* is produced only after the result of the last entry was appended, so that it
\* never holds a partial list of results
C27_StrictlySequential ==
  /\ [](InDomain => Len(domainResults) = i - 1)
  /\ []((pc = "done" /\ response.status = 200) =>
           /\ Len(response.results) = Len(Domains.items)
           /\ \A k \in 1..Len(response.results) : Len(response.results[k].plans) >= 1)
  /\ [][/\ requests' \in {requests, requests + 1}
        /\ requests' = requests + 1 => (InDomain /\ Len(domainResults') = i - 1)
        /\ domainResults' # domainResults =>
              (requests' = requests /\ domainResults' = Append(domainResults, domainResults'[i]))
       ]_vars

\* a batch of two domains is answered: requests were made for both and the
\* response holds both results
C27_Witness ==
  /\ pc = "done"
  /\ response.status = 200
  /\ Len(Domains.items) = 2
  /\ Len(response.results) = 2
  /\ response.results[1].status = "success"
  /\ response.results[2].status = "no_pricing"
  /\ requests >= 4

\* the number of columns a CSV reader finds in row: one more than the commas
\* outside double quotes
Columns(row) ==
  1 + Cardinality({k \in 1..Len(row) :
                     /\ row[k] = ","
                     /\ Cardinality({j \in 1..(k - 1) : row[j] = "\""}) % 2 = 0})

\* C28: the export has one header row, then one row for each record, in order,
\* and every text field that holds a comma, a price such as "$1,299" included, is
\* quoted, so that each row splits into exactly six columns
C28_CsvSixColumns ==
  (downloaded /\ extracted # <<>>) =>
     LET rows == Split(csvContent, "\n")
     IN  /\ Len(rows) = Len(extracted) + 1
         /\ \A k \in 1..Len(rows) : Columns(rows[k]) = 6

\* the record of the card "Team ... $1,299" has the price "$1,299", written without
\* quotes: its row splits into seven columns
C28_PriceCommaUnquoted ==
  /\ downloaded
  /\ Len(extracted) = 1
  /\ extracted[1].price = <<"$", "1", ",", "2", "9", "9">>
  /\ Len(Split(csvContent, "\n")) = 2
  /\ includes(Split(csvContent, "\n")[2], <<",", "$", "1", ",", "2", "9", "9", ",">>)
  /\ Columns(Split(csvContent, "\n")[2]) = 7

\* the entry about to be processed is not a string, or its base URL does not parse
BadEntryNext ==
  pc = "domain" /\ i <= Len(Domains.items) /\ ThrownBy(Domains.items[i]) # ""

LinksBeforeThrow ==
  LET hrefs == PricingHrefs(Served(baseUrl))
      ok(h) == startsWith(h, <<"h", "t", "t", "p">>) \/ ResolveOk(h, baseUrl)
      n == Min({k \in 1..(Len(hrefs) + 1) : k > Len(hrefs) \/ ~ok(hrefs[k])}) - 1
  IN  [urls |-> Map(SubSeq(hrefs, 1, n), LAMBDA h : FullUrl(h, baseUrl)),
       threw |-> n < Len(hrefs)]

\* C30: when the resolution of an anchor's href throws while the links are
\* collected, findPricingPage absorbs the exception: it returns the URLs
\* collected before that anchor, de-duplicated, skips the anchors after it and
\* probes no path; its caller sees no exception
C30_BadAnchorAbsorbed ==
  (InDomain /\ fetchlog # <<>> /\ fetchlog[1].ok /\ LinksBeforeThrow.threw) =>
     /\ pc = "scrape"
     /\ probed = <<>>
     /\ urlsToScrape = (IF LinksBeforeThrow.urls # <<>>
                         THEN Dedup(LinksBeforeThrow.urls) ELSE <<baseUrl>>)
     /\ Len(domainResults) = i - 1

\* the second pricing link of the root page of b.org does not resolve: the first
\* is the only candidate, the third was skipped and no path was probed
C30_Witness ==
  /\ pc = "scrape"
  /\ baseUrl = <<"h", "t", "t", "p", "s", ":", "/", "/", "B", ".", "o", "r", "g">>
  /\ Len(PricingHrefs(Served(baseUrl))) = 3
  /\ ~ResolveOk(PricingHrefs(Served(baseUrl))[2], baseUrl)
  /\ probed = <<>>
  /\ urlsToScrape = << <<"h", "t", "t", "p", "s", ":", "/", "/", "b", ".", "o", "r", "g", "/", "p", "r", "i", "c", "i", "n", "g">> >>

=============================================================================
